---- MODULE Spec2Model ----
(***************************************************************************)
(* ContentBot: source adapters, research aggregation and the generation   *)
(* pipeline (createBlog, generateTopics, ContentBot).                      *)
(*                                                                         *)
(* SpecAdapter : one call of one source adapter against an arbitrary       *)
(*               external service.                                         *)
(* Spec        : one run of a pipeline entry point.                        *)
(***************************************************************************)
EXTENDS Integers, Sequences, FiniteSets, TLC

\* ------------------------------------------------------------------ bounds
\* largest count a caller requests from an adapter (the smallest is -1)
MaxReq == 6
\* largest number of entries an external service puts into one response
MaxResp == 6

\* ------------------------------------------------- platform ceilings (code)
BingCeiling == 5
ScrapeBingCeiling == 5
TavilyCeiling == 5
ScrapeTavilyCeiling == 5
ScrapeRedditCeiling == 25
RapidRedditCeiling == 10
YouTubeCeiling == 50

\* ----------------------------------------------------------------- helpers
\* the largest per-platform count a caller passes to an entry point
MaxCount == 1

\* the most items one adapter returns to the pipeline
MaxItems == 2

\* the most words one section of a raw completion holds
MaxWords == 2

\* the most topics a raw completion lists
MaxTopics == 3

\* the most entries a keywords argument holds
MaxKeywords == 2

\* the days the clock can show
MaxDay == 2

\* entries of one external response whose titles are mapped
MaxEntries == 3

\* options.bingCount ?? 5, options.bingCount || 5
DefaultCount == 5

\* fetchRedditPosts(category, 3), fetchYouTubeVideos(category, 3)
EnhancedCount == 3

Min(a, b) == IF a <= b THEN a ELSE b

Max(a, b) == IF a >= b THEN a ELSE b

\* Array.prototype.slice(0, n): a negative n counts from the end
JsSlice0(s, n) ==
  LET end == IF n < 0 THEN Max(Len(s) + n, 0) ELSE Min(n, Len(s))
  IN  SubSeq(s, 1, end)

\* Array.prototype.filter
Filter(s, Keep(_)) == SelectSeq(s, Keep)

\* ids of the entries of a response, in response order
Ids(s) == [i \in 1..Len(s) |-> s[i].id]

\* --------------------------------------------------- the external service
\* An entry of a response: its position in the response and how well it is
\* formed.  "all": every field the adapter looks for is present (an RSS item
\* matching the strict pattern, a t3 child, a youtube#video item, a post
\* matching the query); "loose": an RSS item only the second, looser pattern
\* matches (for the other adapters: an entry the adapter's filter drops);
\* "none": an entry no pattern or filter accepts.
ItemClasses == {"all", "loose", "none"}

AllGood(n) == [i \in 1..n |-> [id |-> i, cls |-> "all"]]

OneOdd(n, k, c) == [i \in 1..n |-> [id |-> i, cls |-> IF i = k THEN c ELSE "all"]]

ItemSeqs ==
  {AllGood(n) : n \in 0..MaxResp}
    \cup {OneOdd(n, k, c) : n \in 1..MaxResp, k \in 1..MaxResp, c \in {"loose", "none"}}

\* A response body: not parseable at all, parseable but without the key path
\* the adapter navigates, or carrying a list of entries.
Bodies ==
  {[shape |-> "malformed", items |-> <<>>], [shape |-> "nokey", items |-> <<>>]}
    \cup {[shape |-> "ok", items |-> s] : s \in ItemSeqs}

Statuses == {200, 301, 404}

\* What comes back for one outbound request: a transport failure (the request's
\* 'error' event, a rejected client promise) or a status line and a body.
Responses ==
  {[transport |-> "error", status |-> 0, body |-> [shape |-> "malformed", items |-> <<>>]]}
    \cup {[transport |-> "ok", status |-> st, body |-> b] : st \in Statuses, b \in Bodies}

IsAll(it) == it.cls = "all"

IsLooseOrAll(it) == it.cls \in {"all", "loose"}

\* ------------------------------------------------------------ adapter state
AdapterFns ==
  { "CreateBlog.fetchBingNewsArticles", "ScrapeBing.fetchBingNewsArticles",
    "GenTopics.fetchTavilyNewsArticles", "ScrapeTavily.fetchTavilyNewsArticles",
    "ScrapeReddit.fetchRedditPosts", "RapidReddit.fetchRedditPosts",
    "ScrapeYouTube.fetchYouTubeVideos",
    "Substack.fetchSpecificSubstackPosts", "Substack.fetchGlobalSubstackPosts" }

\* ------------------------------------------------------------ pipeline state
Platforms == {"Bing", "Tavily", "Reddit", "YouTube"}

Tasks == {"news", "reddit", "youtube"}

Entries ==
  { "createBlog", "main", "generateTopics",
    "ContentBot.generateTopics", "ContentBot.createBlog" }

VARIABLES
  entry,        \* the entry point of the run
  pc,           \* the position of the run
  groqKey,      \* whether the generation-endpoint credential is set
  outputPath,   \* whether the caller gave an output path (FALSE: null)
  researchMode, \* "basic" or "enhanced"
  opts,         \* the per-platform counts the caller passed
  cnt,          \* the per-platform counts the run works with
  tavilyClient, \* whether the module holds a Tavily client
  tstarted,     \* research tasks whose function has been called
  tsettled,     \* research tasks whose promise has settled
  invoked,      \* platforms whose adapter has been invoked
  failed,       \* platforms whose adapter failed
  ret,          \* what each platform's adapter returned
  done,         \* platforms in the order their adapter calls completed
  news,         \* newsArticles
  reddit,       \* redditPosts
  youtube,      \* youtubeVideos
  sources,      \* the source list rendered into the prompt
  dirs,         \* directories the run created
  files,        \* files the run wrote
  genCalls,     \* number of calls to the completion endpoint
  genOut,       \* what the completion endpoint did: "none", "throw", "empty", "text"
  result        \* "running", "returned", "precondition_error", "generation_error", "research_error"

pvars ==
  <<entry, pc, groqKey, outputPath, researchMode, opts, cnt, tavilyClient, tstarted,
    tsettled, invoked, failed, ret, done, news, reddit, youtube, sources, dirs, files,
    genCalls, genOut, result>>

\* the items adapter p returned when it returned n of them
Items(p, n) == [i \in 1..n |-> [src |-> p, idx |-> i]]

NoCounts == [p \in Platforms |-> 0]

NoItems == [p \in Platforms |-> <<>>]

\* no run of an entry point is in progress
PipelineIdle ==
  /\ entry = "none"
  /\ pc = "idle"
  /\ groqKey = FALSE
  /\ outputPath = FALSE
  /\ researchMode = "basic"
  /\ opts = NoCounts
  /\ cnt = NoCounts
  /\ tavilyClient = FALSE
  /\ tstarted = {}
  /\ tsettled = {}
  /\ invoked = {}
  /\ failed = {}
  /\ ret = NoItems
  /\ done = <<>>
  /\ news = <<>>
  /\ reddit = <<>>
  /\ youtube = <<>>
  /\ sources = <<>>
  /\ dirs = {}
  /\ files = {}
  /\ genCalls = 0
  /\ genOut = "none"
  /\ result = "running"

\* ------------------------------------------------------------ adapter call state
VARIABLES
  a_fn,      \* the adapter function called
  a_max,     \* the count the caller asked for
  a_cred,    \* whether the adapter's credential / client is present
  a_pc,      \* "call", "wait1", "wait2", "done"
  a_limit,   \* the clamped count the adapter works with
  a_net,     \* number of outbound requests issued so far
  a_failed,  \* whether a request of this call ended in a transport failure
  a_badst,   \* whether a request of this call was answered with a non-2xx status
  a_found,   \* entries kept between the first and the second request
  a_nopath,  \* whether an HTML page came back without the embedded payload or key path
  a_result,  \* the ids of the items the call returned
  a_out      \* "pending", "resolved", "rejected"

avars ==
  <<a_fn, a_max, a_cred, a_pc, a_limit, a_net, a_failed, a_badst, a_found, a_nopath,
    a_result, a_out>>

\* ------------------------------------------------------------ function call state
VARIABLES
  f_fn,      \* the function applied
  f_in,      \* its arguments
  f_pc,      \* "call", "done"; "idle" when no function is under study
  f_out      \* what it returned

fvars == <<f_fn, f_in, f_pc, f_out>>

\* ------------------------------------------------------------ concurrent runs
MaxRuns == 2

Runs == 1..MaxRuns

VARIABLES
  tavilyKey,          \* whether process.env.TAVILY_API_KEY is set
  tavilyModule,       \* what import('tavily') gives: "ok", "noclass", "throws"
  tavilyInitialized,  \* the module-level flag
  tavilyHandle,       \* the module-level client: 0 is null, k the k-th client constructed
  constructed,        \* number of clients constructed so far
  i_pc,               \* per run: "idle", "bing", "import", "returned"
  i_ret,              \* per run: what initTavily returned, "none" before
  x_fn,               \* the shelling adapter the processes call
  tempFile,           \* the fixed temporary file: NoFile, or who wrote it and how many items
  x_pc,               \* per process: "idle", "exec", "exists", "read", "unlink", "done"
  x_wrote,            \* per process: whether its scraper run wrote items
  x_read,             \* per process: what readFileSync gave it, NoFile before
  x_ret               \* per process: the writers of the items it returned, {} for []

cvars == <<tavilyKey, tavilyModule, tavilyInitialized, tavilyHandle, constructed,
           i_pc, i_ret, x_fn, tempFile, x_pc, x_wrote, x_read, x_ret>>

vars == <<avars, pvars, fvars, cvars>>

\* fs.existsSync(tempFile) is false
NoFile == [by |-> -1, n |-> 0]

\* no concurrent runs are under study
ConcurrencyIdle ==
  /\ tavilyKey = FALSE
  /\ tavilyModule = "ok"
  /\ tavilyInitialized = FALSE
  /\ tavilyHandle = 0
  /\ constructed = 0
  /\ i_pc = [r \in Runs |-> "idle"]
  /\ i_ret = [r \in Runs |-> "none"]
  /\ x_fn = "none"
  /\ tempFile = NoFile
  /\ x_pc = [r \in Runs |-> "idle"]
  /\ x_wrote = [r \in Runs |-> FALSE]
  /\ x_read = [r \in Runs |-> NoFile]
  /\ x_ret = [r \in Runs |-> {}]

\* no function application is under study
FunctionIdle ==
  /\ f_fn = "none"
  /\ f_in = <<>>
  /\ f_pc = "idle"
  /\ f_out = <<>>

\* no single adapter call is under study
AdapterIdle ==
  /\ a_fn = "none"
  /\ a_max = 0
  /\ a_cred = FALSE
  /\ a_pc = "idle"
  /\ a_limit = 0
  /\ a_net = 0
  /\ a_failed = FALSE
  /\ a_badst = FALSE
  /\ a_found = <<>>
  /\ a_nopath = FALSE
  /\ a_result = <<>>
  /\ a_out = "pending"

InitAdapter ==
  /\ a_fn \in AdapterFns
  /\ a_max \in (-1)..MaxReq
  /\ a_cred \in BOOLEAN
  /\ a_pc = "call"
  /\ a_limit = 0
  /\ a_net = 0
  /\ a_failed = FALSE
  /\ a_badst = FALSE
  /\ a_found = <<>>
  /\ a_nopath = FALSE
  /\ a_result = <<>>
  /\ a_out = "pending"
  /\ PipelineIdle
  /\ FunctionIdle
  /\ ConcurrencyIdle

\* the promise of the call resolves with items
Resolve(items) ==
  /\ a_result' = items
  /\ a_out' = "resolved"
  /\ a_pc' = "done"

\* the promise of the call rejects
Reject ==
  /\ a_result' = <<>>
  /\ a_out' = "rejected"
  /\ a_pc' = "done"

\* one outbound request goes out
Issue(limit, nextpc) ==
  /\ a_limit' = limit
  /\ a_net' = a_net + 1
  /\ a_pc' = nextpc
  /\ UNCHANGED <<a_result, a_out>>

\* bookkeeping of what the service did to the request
Note(r) ==
  /\ a_failed' = (a_failed \/ r.transport = "error")
  /\ a_badst' = (a_badst \/ (r.transport = "ok" /\ r.status # 200))

\* ------------------------------------------------------------ the adapters
\* Bing News RSS, in-process variant ------------------------------------------
\* while ((match = regex.exec(data)) !== null && articles.length < count)
BingMatches(items, count) == JsSlice0(Ids(Filter(items, IsAll)), Max(count, 0))

CreateBlog_fetchBingNewsArticles_Call ==
  /\ a_pc = "call"
  /\ a_fn = "CreateBlog.fetchBingNewsArticles"
  /\ IF a_max <= 0
       THEN Resolve(<<>>) /\ UNCHANGED <<a_limit, a_net>>
       ELSE Issue(Min(a_max, BingCeiling), "wait1")
  /\ UNCHANGED <<a_fn, a_max, a_cred, a_nopath, a_failed, a_badst, a_found, pvars, fvars, cvars>>

\* the same handler without the request's 'error' listener: the failure surfaces
CreateBlog_fetchBingNewsArticles_Response_NoErrorListener ==
  /\ a_pc = "wait1"
  /\ a_fn = "CreateBlog.fetchBingNewsArticles"
  /\ \E r \in Responses :
       /\ Note(r)
       /\ IF r.transport = "error"
            THEN Reject
            ELSE Resolve(BingMatches(r.body.items, a_limit))
  /\ UNCHANGED <<a_fn, a_max, a_cred, a_nopath, a_limit, a_net, a_found, pvars, fvars, cvars>>

CreateBlog_fetchBingNewsArticles_Response ==
  /\ a_pc = "wait1"
  /\ a_fn = "CreateBlog.fetchBingNewsArticles"
  /\ \E r \in Responses :
       /\ Note(r)
       /\ IF r.transport = "error"
            THEN Resolve(<<>>)
            \* no status check: whatever body arrives is matched against the pattern
            ELSE Resolve(BingMatches(r.body.items, a_limit))
  /\ UNCHANGED <<a_fn, a_max, a_cred, a_nopath, a_limit, a_net, a_found, pvars, fvars, cvars>>

\* Bing News RSS, scraper script ----------------------------------------------
\* the two patterns are tried in turn, the second only if the first found nothing
ScrapeBingMatches(items, max) ==
  LET first == JsSlice0(Ids(Filter(items, IsAll)), Max(max, 0))
      second == JsSlice0(Ids(Filter(items, IsLooseOrAll)), Max(max, 0))
  IN  IF Len(first) > 0 THEN first ELSE second

ScrapeBing_fetchBingNewsArticles_Call ==
  /\ a_pc = "call"
  /\ a_fn = "ScrapeBing.fetchBingNewsArticles"
  /\ Issue(Min(a_max, ScrapeBingCeiling), "wait1")
  /\ UNCHANGED <<a_fn, a_max, a_cred, a_nopath, a_failed, a_badst, a_found, pvars, fvars, cvars>>

ScrapeBing_fetchBingNewsArticles_Response ==
  /\ a_pc = "wait1"
  /\ a_fn = "ScrapeBing.fetchBingNewsArticles"
  /\ \E r \in Responses :
       /\ Note(r)
       /\ IF r.transport = "error" \/ r.status # 200 \/ r.body.shape = "malformed"
            THEN Resolve(<<>>)
            ELSE Resolve(ScrapeBingMatches(r.body.items, a_limit))
  /\ UNCHANGED <<a_fn, a_max, a_cred, a_nopath, a_limit, a_net, a_found, pvars, fvars, cvars>>

\* Tavily ---------------------------------------------------------------------
\* tavilyClient.search(...) rejects on a transport failure or an error status
\* and otherwise resolves with the parsed response
TavilyRejects(r) == r.transport = "error" \/ r.status # 200

\* response.results.map(...): every result of the response becomes an article
TavilyArticles(body) ==
  IF body.shape = "ok" /\ Len(body.items) > 0 THEN Ids(body.items) ELSE <<>>

GenTopics_fetchTavilyNewsArticles_Call ==
  /\ a_pc = "call"
  /\ a_fn = "GenTopics.fetchTavilyNewsArticles"
  /\ IF a_max <= 0 \/ ~a_cred
       THEN Resolve(<<>>) /\ UNCHANGED <<a_limit, a_net>>
       ELSE Issue(Min(a_max, TavilyCeiling), "wait1")
  /\ UNCHANGED <<a_fn, a_max, a_cred, a_nopath, a_failed, a_badst, a_found, pvars, fvars, cvars>>

GenTopics_fetchTavilyNewsArticles_Response ==
  /\ a_pc = "wait1"
  /\ a_fn = "GenTopics.fetchTavilyNewsArticles"
  /\ \E r \in Responses :
       /\ Note(r)
       /\ IF TavilyRejects(r)
            THEN Resolve(<<>>)
            ELSE Resolve(TavilyArticles(r.body))
  /\ UNCHANGED <<a_fn, a_max, a_cred, a_nopath, a_limit, a_net, a_found, pvars, fvars, cvars>>

ScrapeTavily_fetchTavilyNewsArticles_Call ==
  /\ a_pc = "call"
  /\ a_fn = "ScrapeTavily.fetchTavilyNewsArticles"
  /\ IF ~a_cred
       THEN Resolve(<<>>) /\ UNCHANGED <<a_limit, a_net>>
       ELSE Issue(Min(a_max, ScrapeTavilyCeiling), "wait1")
  /\ UNCHANGED <<a_fn, a_max, a_cred, a_nopath, a_failed, a_badst, a_found, pvars, fvars, cvars>>

ScrapeTavily_fetchTavilyNewsArticles_Response ==
  /\ a_pc = "wait1"
  /\ a_fn = "ScrapeTavily.fetchTavilyNewsArticles"
  /\ \E r \in Responses :
       /\ Note(r)
       /\ IF TavilyRejects(r)
            THEN Resolve(<<>>)
            ELSE Resolve(TavilyArticles(r.body))
  /\ UNCHANGED <<a_fn, a_max, a_cred, a_nopath, a_limit, a_net, a_found, pvars, fvars, cvars>>

\* Reddit, public search endpoint ---------------------------------------------
ScrapeReddit_fetchRedditPosts_Call ==
  /\ a_pc = "call"
  /\ a_fn = "ScrapeReddit.fetchRedditPosts"
  \* Math.min(Math.max(1, max), 25)
  /\ Issue(Min(Max(1, a_max), ScrapeRedditCeiling), "wait1")
  /\ UNCHANGED <<a_fn, a_max, a_cred, a_nopath, a_failed, a_badst, a_found, pvars, fvars, cvars>>

ScrapeReddit_fetchRedditPosts_Response ==
  /\ a_pc = "wait1"
  /\ a_fn = "ScrapeReddit.fetchRedditPosts"
  /\ \E r \in Responses :
       /\ Note(r)
       /\ IF r.transport = "error" \/ r.status # 200 \/ r.body.shape # "ok"
            THEN Resolve(<<>>)
            \* children.filter(kind === 't3' && data).map(...): no cut to limit
            ELSE Resolve(Ids(Filter(r.body.items, IsAll)))
  /\ UNCHANGED <<a_fn, a_max, a_cred, a_nopath, a_limit, a_net, a_found, pvars, fvars, cvars>>

\* Reddit through RapidAPI ----------------------------------------------------
RapidReddit_fetchRedditPosts_Call ==
  /\ a_pc = "call"
  /\ a_fn = "RapidReddit.fetchRedditPosts"
  /\ IF ~a_cred
       THEN Resolve(<<>>) /\ UNCHANGED <<a_limit, a_net>>
       ELSE Issue(Min(a_max, RapidRedditCeiling), "wait1")
  /\ UNCHANGED <<a_fn, a_max, a_cred, a_nopath, a_failed, a_badst, a_found, pvars, fvars, cvars>>

RapidReddit_fetchRedditPosts_Response ==
  /\ a_pc = "wait1"
  /\ a_fn = "RapidReddit.fetchRedditPosts"
  /\ \E r \in Responses :
       /\ Note(r)
       /\ IF r.transport = "error" \/ r.status # 200 \/ r.body.shape # "ok"
            THEN Resolve(<<>>)
            \* data.data.slice(0, limit); title and content always get a default,
            \* so the closing filter keeps every post
            ELSE Resolve(Ids(JsSlice0(r.body.items, a_limit)))
  /\ UNCHANGED <<a_fn, a_max, a_cred, a_nopath, a_limit, a_net, a_found, pvars, fvars, cvars>>

\* YouTube: a search request, then a statistics request ------------------------
ScrapeYouTube_fetchYouTubeVideos_Call ==
  /\ a_pc = "call"
  /\ a_fn = "ScrapeYouTube.fetchYouTubeVideos"
  /\ IF ~a_cred
       THEN Resolve(<<>>) /\ a_limit' = Min(Max(1, a_max), YouTubeCeiling) /\ UNCHANGED a_net
       ELSE Issue(Min(Max(1, a_max), YouTubeCeiling), "wait1")
  /\ UNCHANGED <<a_fn, a_max, a_cred, a_nopath, a_failed, a_badst, a_found, pvars, fvars, cvars>>

ScrapeYouTube_fetchYouTubeVideos_SearchResponse ==
  /\ a_pc = "wait1"
  /\ a_fn = "ScrapeYouTube.fetchYouTubeVideos"
  /\ \E r \in Responses :
       /\ Note(r)
       /\ LET videos == Filter(r.body.items, IsAll)
          IN  IF \/ r.transport = "error" \/ r.status # 200
                 \/ r.body.shape # "ok" \/ Len(r.body.items) = 0
                 \/ Len(videos) = 0
                THEN Resolve(<<>>) /\ UNCHANGED <<a_found, a_limit, a_net>>
                ELSE /\ a_found' = videos
                     /\ Issue(a_limit, "wait2")
  /\ UNCHANGED <<a_fn, a_max, a_cred, a_nopath, pvars, fvars, cvars>>

ScrapeYouTube_fetchYouTubeVideos_StatsResponse ==
  /\ a_pc = "wait2"
  /\ a_fn = "ScrapeYouTube.fetchYouTubeVideos"
  /\ \E r \in Responses :
       /\ Note(r)
       \* no status check on the statistics response; statsJson.items.map throws
       \* when the body has no items list
       /\ IF r.transport = "error" \/ r.body.shape # "ok"
            THEN Resolve(<<>>)
            ELSE Resolve(Ids(a_found))
  /\ UNCHANGED <<a_fn, a_max, a_cred, a_nopath, a_limit, a_net, a_found, pvars, fvars, cvars>>

\* Substack -------------------------------------------------------------------
\* the page arrived, but the __NEXT_DATA__ script is missing or unparseable, or
\* the parsed payload lacks the key path to the list
NoPath(r) == r.transport = "ok" /\ r.status = 200 /\ r.body.shape # "ok"

\* posts.filter(title or description includes the query).slice(0, max)
processAndFormatPosts(jsonData, queryBlank, max) ==
  LET posts == IF queryBlank THEN jsonData ELSE Filter(jsonData, IsAll)
  IN  Ids(JsSlice0(posts, max))

Substack_fetchSpecificSubstackPosts_Call ==
  /\ a_pc = "call"
  /\ a_fn = "Substack.fetchSpecificSubstackPosts"
  /\ Issue(a_max, "wait1")
  /\ UNCHANGED <<a_fn, a_max, a_cred, a_nopath, a_failed, a_badst, a_found, pvars, fvars, cvars>>

Substack_fetchSpecificSubstackPosts_Response ==
  /\ a_pc = "wait1"
  /\ a_fn = "Substack.fetchSpecificSubstackPosts"
  /\ \E r \in Responses, queryBlank \in BOOLEAN, apiRedirect \in BOOLEAN :
       /\ Note(r)
       /\ IF r.transport = "ok" /\ r.status >= 300 /\ r.status < 400 /\ apiRedirect
            THEN Issue(a_limit, "wait2")
            ELSE /\ IF r.transport = "error" \/ r.status # 200 \/ r.body.shape # "ok"
                      THEN Resolve(<<>>)
                      ELSE Resolve(processAndFormatPosts(r.body.items, queryBlank, a_max))
                 /\ UNCHANGED <<a_limit, a_net>>
  /\ UNCHANGED <<a_fn, a_max, a_cred, a_nopath, a_found, pvars, fvars, cvars>>

Substack_fetchSpecificSubstackPosts_RedirectResponse ==
  /\ a_pc = "wait2"
  /\ a_fn = "Substack.fetchSpecificSubstackPosts"
  /\ \E r \in Responses, queryBlank \in BOOLEAN :
       /\ Note(r)
       /\ IF r.transport = "error" \/ r.status # 200 \/ r.body.shape # "ok"
            THEN Resolve(<<>>)
            ELSE Resolve(processAndFormatPosts(r.body.items, queryBlank, a_max))
  /\ UNCHANGED <<a_fn, a_max, a_cred, a_nopath, a_limit, a_net, a_found, pvars, fvars, cvars>>

Substack_fetchGlobalSubstackPosts_Call ==
  /\ a_pc = "call"
  /\ a_fn = "Substack.fetchGlobalSubstackPosts"
  /\ Issue(a_max, "wait1")
  /\ UNCHANGED <<a_fn, a_max, a_cred, a_nopath, a_failed, a_badst, a_found, pvars, fvars, cvars>>

Substack_fetchGlobalSubstackPosts_Response ==
  /\ a_pc = "wait1"
  /\ a_fn = "Substack.fetchGlobalSubstackPosts"
  /\ \E r \in Responses :
       /\ Note(r)
       /\ a_nopath' = NoPath(r)
       /\ IF \/ r.transport = "error" \/ r.status # 200
             \/ r.body.shape # "ok" \/ Len(r.body.items) = 0
            THEN Resolve(<<>>)
            ELSE Resolve(Ids(JsSlice0(r.body.items, a_max)))
  /\ UNCHANGED <<a_fn, a_max, a_cred, a_limit, a_net, a_found, pvars, fvars, cvars>>

\* the hard-coded list getPopularPublications returns; its entries come from no
\* response, so their ids are below every response position
PopularPublications == <<-1, -2>>

\* discoverPublicationsFromHTML(topic).then(publications => ...).catch(...)
FallBackIfEmpty(publications) ==
  IF Len(publications) > 0 THEN publications ELSE PopularPublications

Substack_discoverSubstackPublications_Call ==
  /\ a_pc = "call"
  /\ a_fn = "Substack.discoverSubstackPublications"
  /\ Issue(a_max, "wait1")
  /\ UNCHANGED <<a_fn, a_max, a_cred, a_nopath, a_failed, a_badst, a_found, pvars, fvars, cvars>>

\* the search API answers: any failure starts the HTML search
Substack_discoverSubstackPublications_Response ==
  /\ a_pc = "wait1"
  /\ a_fn = "Substack.discoverSubstackPublications"
  /\ \E r \in Responses :
       /\ Note(r)
       /\ IF r.transport = "error" \/ r.status # 200 \/ r.body.shape # "ok"
            THEN Issue(a_limit, "wait2")
            ELSE Resolve(Ids(r.body.items)) /\ UNCHANGED <<a_limit, a_net>>
  /\ UNCHANGED <<a_fn, a_max, a_cred, a_nopath, a_found, pvars, fvars, cvars>>

\* discoverPublicationsFromHTML resolves, with [] on every failure
Substack_discoverPublicationsFromHTML_Response ==
  /\ a_pc = "wait2"
  /\ a_fn = "Substack.discoverSubstackPublications"
  /\ \E r \in Responses :
       /\ Note(r)
       /\ a_nopath' = NoPath(r)
       /\ IF r.transport = "error" \/ r.status # 200 \/ r.body.shape # "ok"
            THEN Resolve(FallBackIfEmpty(<<>>))
            ELSE Resolve(FallBackIfEmpty(Ids(r.body.items)))
  /\ UNCHANGED <<a_fn, a_max, a_cred, a_limit, a_net, a_found, pvars, fvars, cvars>>

NextAdapter ==
  \/ CreateBlog_fetchBingNewsArticles_Call
  \/ CreateBlog_fetchBingNewsArticles_Response
  \/ ScrapeBing_fetchBingNewsArticles_Call
  \/ ScrapeBing_fetchBingNewsArticles_Response
  \/ GenTopics_fetchTavilyNewsArticles_Call
  \/ GenTopics_fetchTavilyNewsArticles_Response
  \/ ScrapeTavily_fetchTavilyNewsArticles_Call
  \/ ScrapeTavily_fetchTavilyNewsArticles_Response
  \/ ScrapeReddit_fetchRedditPosts_Call
  \/ ScrapeReddit_fetchRedditPosts_Response
  \/ RapidReddit_fetchRedditPosts_Call
  \/ RapidReddit_fetchRedditPosts_Response
  \/ ScrapeYouTube_fetchYouTubeVideos_Call
  \/ ScrapeYouTube_fetchYouTubeVideos_SearchResponse
  \/ ScrapeYouTube_fetchYouTubeVideos_StatsResponse
  \/ Substack_fetchSpecificSubstackPosts_Call
  \/ Substack_fetchSpecificSubstackPosts_Response
  \/ Substack_fetchSpecificSubstackPosts_RedirectResponse
  \/ Substack_fetchGlobalSubstackPosts_Call
  \/ Substack_fetchGlobalSubstackPosts_Response

SpecAdapter == InitAdapter /\ [][NextAdapter]_vars

\* publication discovery on its own: no fetch of items, so no source adapter
InitDiscover ==
  /\ a_fn = "Substack.discoverSubstackPublications"
  /\ a_max \in 1..MaxReq
  /\ a_cred \in BOOLEAN
  /\ a_pc = "call"
  /\ a_limit = 0
  /\ a_net = 0
  /\ a_failed = FALSE
  /\ a_badst = FALSE
  /\ a_found = <<>>
  /\ a_nopath = FALSE
  /\ a_result = <<>>
  /\ a_out = "pending"
  /\ PipelineIdle
  /\ FunctionIdle
  /\ ConcurrencyIdle

NextDiscover ==
  \/ Substack_discoverSubstackPublications_Call
  \/ Substack_discoverSubstackPublications_Response
  \/ Substack_discoverPublicationsFromHTML_Response

SpecDiscover == InitDiscover /\ [][NextDiscover]_vars

\* ------------------------------------------------------------ the entry points
\* a count option: absent (undefined) or a number
Absent == [given |-> FALSE, v |-> 0]

Given(k) == [given |-> TRUE, v |-> k]

CountOpts == {Absent} \cup {Given(k) : k \in (-1)..MaxCount}

\* o ?? d
Nullish(o, d) == IF o.given THEN o.v ELSE d

\* o || d : 0 is falsy as undefined is
OrDefault(o, d) == IF o.given /\ o.v # 0 THEN o.v ELSE d

\* what one invoked adapter did: it failed, or it returned n items
AdOutcomes == {[ok |-> FALSE, n |-> 0]} \cup {[ok |-> TRUE, n |-> k] : k \in 0..MaxItems}

RetOf(p, o) == IF o.ok THEN Items(p, o.n) ELSE <<>>

\* the outcomes to draw for an adapter that is invoked only when cond holds
OutcomesIf(cond) == IF cond THEN AdOutcomes ELSE {[ok |-> TRUE, n |-> 0]}

\* what the completion endpoint can do; without a credential the call is refused
GenOutcomes == IF groqKey THEN {"throw", "empty", "text"} ELSE {"throw"}

\* a topics completion can also be JSON that is no object (an array, a number)
TopicGenOutcomes == IF groqKey THEN GenOutcomes \cup {"nonobject"} ELSE GenOutcomes

\* the items of the platforms of a sequence, one platform after the other
RECURSIVE Flatten(_)
Flatten(ps) == IF ps = <<>> THEN <<>> ELSE ret[Head(ps)] \o Flatten(Tail(ps))

\* the same list built by pushing each adapter's items as its call completes
MergeSources_ByCompletion(n, r, y) == Flatten(done)

\* const sources = [...newsArticles, ...redditPosts, ...youtubeVideos]
MergeSources(n, r, y) == n \o r \o y

\* source.platform of an item
PlatformOf(source) == IF source.src \in {"Bing", "Tavily"} THEN "News" ELSE source.src

\* the same block numbered by the bare array index
formatForPrompt_ZeroBased(source, index) ==
  [number |-> index, platform |-> PlatformOf(source), item |-> source]

\* `[${sourceNumber}] ${sourceText}\n\n` with sourceNumber = index + 1
formatForPrompt(source, index) ==
  [number |-> index + 1, platform |-> PlatformOf(source), item |-> source]

\* sources.map(formatForPrompt).join(''): Array.prototype.map counts from 0
sourcesText(srcs) == [i \in 1..Len(srcs) |-> formatForPrompt(srcs[i], i - 1)]

Init ==
  /\ AdapterIdle
  /\ FunctionIdle
  /\ ConcurrencyIdle
  /\ entry \in Entries
  /\ pc = "start"
  /\ groqKey \in BOOLEAN
  /\ outputPath \in
       (IF entry \in {"generateTopics", "ContentBot.generateTopics"} THEN BOOLEAN ELSE {TRUE})
  /\ researchMode \in
       (IF entry \in {"generateTopics", "ContentBot.generateTopics"}
          THEN {"basic", "enhanced"} ELSE {"basic"})
  /\ opts \in
       CASE entry = "createBlog" -> [Platforms -> CountOpts]
         [] entry = "main" -> [Platforms -> CountOpts \ {Absent}]
         [] entry \in {"generateTopics", "ContentBot.generateTopics"} ->
              {[p \in Platforms |-> IF p = "Bing" THEN b ELSE IF p = "Tavily" THEN t
                                    ELSE Given(EnhancedCount)] : b \in CountOpts, t \in CountOpts}
         [] OTHER -> {[p \in Platforms |-> Absent]}
  /\ cnt = NoCounts
  /\ tavilyClient = FALSE
  /\ tstarted = {}
  /\ tsettled = {}
  /\ invoked = {}
  /\ failed = {}
  /\ ret = NoItems
  /\ done = <<>>
  /\ news = <<>>
  /\ reddit = <<>>
  /\ youtube = <<>>
  /\ sources = <<>>
  /\ dirs = {}
  /\ files = {}
  /\ genCalls = 0
  /\ genOut = "none"
  /\ result = "running"

\* the run ends with the error kind propagating to the caller
Throw(kind) ==
  /\ result' = kind
  /\ pc' = "done"

\* createBlog (shell-out variant) and main (in-process news) -------------------
createBlog_CheckKey ==
  /\ pc = "start"
  /\ entry \in {"createBlog", "main"}
  /\ IF ~groqKey
       THEN Throw("precondition_error") /\ UNCHANGED cnt
       ELSE /\ cnt' = [p \in Platforms |-> Nullish(opts[p], DefaultCount)]
            /\ pc' = IF entry = "main" THEN "initTavily" ELSE "news"
            /\ UNCHANGED result
  /\ UNCHANGED <<fvars, avars, entry, groqKey, outputPath, researchMode, opts, tavilyClient,
                 tstarted, tsettled, invoked, failed, ret, done, news, reddit, youtube,
                 sources, dirs, files, genCalls, genOut, cvars>>

\* Bing then Tavily, each a blocking child process whose failure is caught
createBlog_fetchNewsArticles ==
  /\ pc = "news"
  /\ entry = "createBlog"
  /\ IF cnt["Bing"] > 0 \/ cnt["Tavily"] > 0
       THEN \E ob \in OutcomesIf(cnt["Bing"] > 0), ot \in OutcomesIf(cnt["Tavily"] > 0) :
              LET called == {p \in {"Bing", "Tavily"} : cnt[p] > 0}
                  broke == {p \in called : ~(IF p = "Bing" THEN ob ELSE ot).ok}
                  b == IF "Bing" \in called THEN RetOf("Bing", ob) ELSE <<>>
                  t == IF "Tavily" \in called THEN RetOf("Tavily", ot) ELSE <<>>
              IN  /\ invoked' = invoked \cup called
                  /\ failed' = failed \cup broke
                  /\ ret' = [ret EXCEPT !["Bing"] = b, !["Tavily"] = t]
                  /\ done' = done \o (IF "Bing" \in called THEN <<"Bing">> ELSE <<>>)
                                  \o (IF "Tavily" \in called THEN <<"Tavily">> ELSE <<>>)
                  /\ news' = b \o t
                  /\ tstarted' = tstarted \cup {"news"}
                  /\ tsettled' = tsettled \cup {"news"}
       ELSE UNCHANGED <<invoked, failed, ret, done, news, tstarted, tsettled>>
  /\ pc' = "reddit"
  /\ UNCHANGED <<fvars, avars, entry, groqKey, outputPath, researchMode, opts, cnt, tavilyClient,
                 reddit, youtube, sources, dirs, files, genCalls, genOut, result, cvars>>

\* await initTavily() when Tavily is asked for: the client exists afterwards or not
main_initTavily ==
  /\ pc = "initTavily"
  /\ IF cnt["Tavily"] > 0
       THEN \E client \in BOOLEAN : tavilyClient' = client
       ELSE UNCHANGED tavilyClient
  /\ pc' = "news"
  /\ UNCHANGED <<fvars, avars, entry, groqKey, outputPath, researchMode, opts, cnt, tstarted,
                 tsettled, invoked, failed, ret, done, news, reddit, youtube, sources,
                 dirs, files, genCalls, genOut, result, cvars>>

\* fetchNewsArticles runs up to its first await: one request is in flight
main_fetchNewsArticles_Start ==
  /\ pc = "news"
  /\ entry = "main"
  /\ IF cnt["Bing"] > 0 \/ cnt["Tavily"] > 0
       THEN /\ tstarted' = tstarted \cup {"news"}
            /\ invoked' = invoked \cup
                 (IF cnt["Bing"] > 0 THEN {"Bing"}
                  ELSE IF cnt["Tavily"] > 0 /\ tavilyClient THEN {"Tavily"} ELSE {})
            /\ tsettled' = IF cnt["Bing"] > 0 \/ (cnt["Tavily"] > 0 /\ tavilyClient)
                             THEN tsettled ELSE tsettled \cup {"news"}
       ELSE UNCHANGED <<tstarted, invoked, tsettled>>
  /\ pc' = "reddit"
  /\ UNCHANGED <<fvars, avars, entry, groqKey, outputPath, researchMode, opts, cnt, tavilyClient,
                 failed, ret, done, news, reddit, youtube, sources, dirs, files,
                 genCalls, genOut, result, cvars>>

\* the same call when a failing child process is not caught
createBlog_fetchRedditPosts_Uncaught ==
  /\ pc = "reddit"
  /\ IF cnt["Reddit"] > 0
       THEN \E o \in AdOutcomes :
              /\ tstarted' = tstarted \cup {"reddit"}
              /\ tsettled' = tsettled \cup {"reddit"}
              /\ invoked' = invoked \cup {"Reddit"}
              /\ failed' = IF o.ok THEN failed ELSE failed \cup {"Reddit"}
              /\ ret' = [ret EXCEPT !["Reddit"] = RetOf("Reddit", o)]
              /\ done' = Append(done, "Reddit")
              /\ reddit' = RetOf("Reddit", o)
              /\ IF o.ok THEN pc' = "youtube" /\ UNCHANGED result
                         ELSE Throw("research_error")
       ELSE /\ pc' = "youtube"
            /\ UNCHANGED <<tstarted, tsettled, invoked, failed, ret, done, reddit, result>>
  /\ UNCHANGED <<fvars, avars, entry, groqKey, outputPath, researchMode, opts, cnt, tavilyClient,
                 news, youtube, sources, dirs, files, genCalls, genOut, cvars>>

\* a blocking child process; its failure is caught and yields no posts
createBlog_fetchRedditPosts ==
  /\ pc = "reddit"
  /\ IF cnt["Reddit"] > 0
       THEN \E o \in AdOutcomes :
              /\ tstarted' = tstarted \cup {"reddit"}
              /\ tsettled' = tsettled \cup {"reddit"}
              /\ invoked' = invoked \cup {"Reddit"}
              /\ failed' = IF o.ok THEN failed ELSE failed \cup {"Reddit"}
              /\ ret' = [ret EXCEPT !["Reddit"] = RetOf("Reddit", o)]
              /\ done' = Append(done, "Reddit")
              /\ reddit' = RetOf("Reddit", o)
       ELSE UNCHANGED <<tstarted, tsettled, invoked, failed, ret, done, reddit>>
  /\ pc' = "youtube"
  /\ UNCHANGED <<fvars, avars, entry, groqKey, outputPath, researchMode, opts, cnt, tavilyClient,
                 news, youtube, sources, dirs, files, genCalls, genOut, result, cvars>>

createBlog_fetchYouTubeVideos ==
  /\ pc = "youtube"
  /\ IF cnt["YouTube"] > 0
       THEN \E o \in AdOutcomes :
              /\ tstarted' = tstarted \cup {"youtube"}
              /\ tsettled' = tsettled \cup {"youtube"}
              /\ invoked' = invoked \cup {"YouTube"}
              /\ failed' = IF o.ok THEN failed ELSE failed \cup {"YouTube"}
              /\ ret' = [ret EXCEPT !["YouTube"] = RetOf("YouTube", o)]
              /\ done' = Append(done, "YouTube")
              /\ youtube' = RetOf("YouTube", o)
       ELSE UNCHANGED <<tstarted, tsettled, invoked, failed, ret, done, youtube>>
  /\ pc' = IF entry = "main" THEN "news_bing" ELSE "save_research"
  /\ UNCHANGED <<fvars, avars, entry, groqKey, outputPath, researchMode, opts, cnt, tavilyClient,
                 news, reddit, sources, dirs, files, genCalls, genOut, result, cvars>>

\* the Bing request of fetchNewsArticles completes; the Tavily search goes out
main_fetchNewsArticles_Bing ==
  /\ pc = "news_bing"
  /\ \E o \in OutcomesIf("Bing" \in invoked) :
       IF "Bing" \in invoked
         THEN /\ failed' = IF o.ok THEN failed ELSE failed \cup {"Bing"}
              /\ ret' = [ret EXCEPT !["Bing"] = RetOf("Bing", o)]
              /\ done' = Append(done, "Bing")
              /\ news' = RetOf("Bing", o)
              /\ invoked' = invoked \cup
                   (IF cnt["Tavily"] > 0 /\ tavilyClient THEN {"Tavily"} ELSE {})
         ELSE UNCHANGED <<failed, ret, done, news, invoked>>
  /\ pc' = "news_tavily"
  /\ UNCHANGED <<fvars, avars, entry, groqKey, outputPath, researchMode, opts, cnt, tavilyClient,
                 tstarted, tsettled, reddit, youtube, sources, dirs, files, genCalls,
                 genOut, result, cvars>>

\* the Tavily search completes and fetchNewsArticles returns allArticles
main_fetchNewsArticles_Tavily ==
  /\ pc = "news_tavily"
  /\ \E o \in OutcomesIf("Tavily" \in invoked) :
       IF "Tavily" \in invoked
         THEN /\ failed' = IF o.ok THEN failed ELSE failed \cup {"Tavily"}
              /\ ret' = [ret EXCEPT !["Tavily"] = RetOf("Tavily", o)]
              /\ done' = Append(done, "Tavily")
              /\ news' = news \o RetOf("Tavily", o)
         ELSE UNCHANGED <<failed, ret, done, news>>
  /\ tsettled' = IF "news" \in tstarted THEN tsettled \cup {"news"} ELSE tsettled
  /\ pc' = "save_research"
  /\ UNCHANGED <<fvars, avars, entry, groqKey, outputPath, researchMode, opts, cnt, tavilyClient,
                 tstarted, invoked, reddit, youtube, sources, dirs, files, genCalls,
                 genOut, result, cvars>>

\* saveResearchData(researchData, topic, outputPath)
createBlog_saveResearchData ==
  /\ pc = "save_research"
  /\ dirs' = dirs \cup {"research"}
  /\ files' = files \cup {"research"}
  /\ pc' = "compose"
  /\ UNCHANGED <<fvars, avars, entry, groqKey, outputPath, researchMode, opts, cnt, tavilyClient,
                 tstarted, tsettled, invoked, failed, ret, done, news, reddit, youtube,
                 sources, genCalls, genOut, result, cvars>>

\* generateBlogContent up to the completion call: the prompt is built and saved
generateBlogContent_savePrompt ==
  /\ pc = "compose"
  /\ sources' = MergeSources(news, reddit, youtube)
  /\ dirs' = dirs \cup {"prompts"}
  /\ files' = files \cup {"prompt"}
  /\ pc' = "complete"
  /\ UNCHANGED <<fvars, avars, entry, groqKey, outputPath, researchMode, opts, cnt, tavilyClient,
                 tstarted, tsettled, invoked, failed, ret, done, news, reddit, youtube,
                 genCalls, genOut, result, cvars>>

\* the same step if a failed completion call were tried a second time
generateBlogContent_complete_Retry ==
  /\ pc = "complete"
  /\ \E g \in GenOutcomes :
       /\ genOut' = g
       /\ genCalls' = genCalls + 1
       /\ IF g = "throw"
            THEN IF genCalls = 0 THEN UNCHANGED <<pc, result>> ELSE Throw("generation_error")
            ELSE pc' = "write" /\ UNCHANGED result
  /\ UNCHANGED <<fvars, avars, entry, groqKey, outputPath, researchMode, opts, cnt, tavilyClient,
                 tstarted, tsettled, invoked, failed, ret, done, news, reddit, youtube,
                 sources, dirs, files, cvars>>

\* return completion.choices[0]?.message?.content || '' ; a thrown error is rethrown
generateBlogContent_complete ==
  /\ pc = "complete"
  /\ \E g \in GenOutcomes :
       /\ genOut' = g
       /\ genCalls' = genCalls + 1
       /\ IF g = "throw"
            THEN Throw("generation_error")
            ELSE pc' = "write" /\ UNCHANGED result
  /\ UNCHANGED <<fvars, avars, entry, groqKey, outputPath, researchMode, opts, cnt, tavilyClient,
                 tstarted, tsettled, invoked, failed, ret, done, news, reddit, youtube,
                 sources, dirs, files, cvars>>

createBlog_writeToMarkdownFile ==
  /\ pc = "write"
  /\ dirs' = dirs \cup {"output"}
  /\ files' = files \cup {"output"}
  /\ result' = "returned"
  /\ pc' = "done"
  /\ UNCHANGED <<fvars, avars, entry, groqKey, outputPath, researchMode, opts, cnt, tavilyClient,
                 tstarted, tsettled, invoked, failed, ret, done, news, reddit, youtube,
                 sources, genCalls, genOut, cvars>>

\* the library facade ----------------------------------------------------------
ContentBot_constructor ==
  /\ pc = "start"
  /\ entry \in {"ContentBot.generateTopics", "ContentBot.createBlog"}
  /\ IF ~groqKey
       THEN Throw("precondition_error")
       ELSE /\ pc' = IF entry = "ContentBot.generateTopics" THEN "gt_start" ELSE "lib_complete"
            /\ UNCHANGED result
  /\ UNCHANGED <<fvars, avars, entry, groqKey, outputPath, researchMode, opts, cnt, tavilyClient,
                 tstarted, tsettled, invoked, failed, ret, done, news, reddit, youtube,
                 sources, dirs, files, genCalls, genOut, cvars>>

\* content = completion.choices[0]?.message?.content || '' ; errors are wrapped
ContentBot_generateBlogContent ==
  /\ pc = "lib_complete"
  /\ \E g \in GenOutcomes :
       /\ genOut' = g
       /\ genCalls' = genCalls + 1
       /\ IF g = "throw"
            THEN Throw("generation_error")
            ELSE pc' = "lib_write" /\ UNCHANGED result
  /\ UNCHANGED <<fvars, avars, entry, groqKey, outputPath, researchMode, opts, cnt, tavilyClient,
                 tstarted, tsettled, invoked, failed, ret, done, news, reddit, youtube,
                 sources, dirs, files, cvars>>

ContentBot_createBlog ==
  /\ pc = "lib_write"
  /\ dirs' = dirs \cup {"output"}
  /\ files' = files \cup {"output"}
  /\ result' = "returned"
  /\ pc' = "done"
  /\ UNCHANGED <<fvars, avars, entry, groqKey, outputPath, researchMode, opts, cnt, tavilyClient,
                 tstarted, tsettled, invoked, failed, ret, done, news, reddit, youtube,
                 sources, genCalls, genOut, cvars>>

\* generateTopics --------------------------------------------------------------
\* the count generateTopics works with; the facade applies || 5 before it does
TopicCount(o) ==
  IF entry = "ContentBot.generateTopics"
    THEN OrDefault(Given(OrDefault(o, DefaultCount)), DefaultCount)
    ELSE OrDefault(o, DefaultCount)

\* the output directory is made, then the options are read
generateTopics_Start ==
  /\ \/ pc = "start" /\ entry = "generateTopics"
     \/ pc = "gt_start"
  /\ dirs' = IF outputPath THEN dirs \cup {"output"} ELSE dirs
  /\ cnt' = [p \in Platforms |->
               IF p \in {"Bing", "Tavily"} THEN TopicCount(opts[p]) ELSE EnhancedCount]
  /\ pc' = "gt_bing"
  /\ UNCHANGED <<fvars, avars, entry, groqKey, outputPath, researchMode, opts, tavilyClient,
                 tstarted, tsettled, invoked, failed, ret, done, news, reddit, youtube,
                 sources, files, genCalls, genOut, result, cvars>>

\* fetchNewsArticles: await fetchBingNewsArticles(topic, bingCount)
generateTopics_fetchBingNewsArticles ==
  /\ pc = "gt_bing"
  /\ tstarted' = tstarted \cup {"news"}
  /\ IF cnt["Bing"] > 0
       THEN \E o \in AdOutcomes :
              /\ invoked' = invoked \cup {"Bing"}
              /\ failed' = IF o.ok THEN failed ELSE failed \cup {"Bing"}
              /\ ret' = [ret EXCEPT !["Bing"] = RetOf("Bing", o)]
              /\ done' = Append(done, "Bing")
              /\ news' = RetOf("Bing", o)
       ELSE UNCHANGED <<invoked, failed, ret, done, news>>
  /\ pc' = "gt_tavily"
  /\ UNCHANGED <<fvars, avars, entry, groqKey, outputPath, researchMode, opts, cnt, tavilyClient,
                 tsettled, reddit, youtube, sources, dirs, files, genCalls, genOut, result, cvars>>

\* the same step if fetchNewsArticles searched without asking initTavily
generateTopics_fetchTavilyNewsArticles_NoClientCheck ==
  /\ pc = "gt_tavily"
  /\ IF cnt["Tavily"] > 0
       THEN \E client \in BOOLEAN : \E o \in AdOutcomes :
              /\ tavilyClient' = client
              /\ invoked' = invoked \cup {"Tavily"}
              /\ failed' = IF o.ok THEN failed ELSE failed \cup {"Tavily"}
              /\ ret' = [ret EXCEPT !["Tavily"] = RetOf("Tavily", o)]
              /\ done' = Append(done, "Tavily")
              /\ news' = news \o RetOf("Tavily", o)
       ELSE UNCHANGED <<tavilyClient, invoked, failed, ret, done, news>>
  /\ tsettled' = tsettled \cup {"news"}
  /\ pc' = IF researchMode = "enhanced" THEN "gt_reddit" ELSE "gt_save"
  /\ UNCHANGED <<fvars, avars, entry, groqKey, outputPath, researchMode, opts, cnt, tstarted,
                 reddit, youtube, sources, dirs, files, genCalls, genOut, result, cvars>>

\* fetchNewsArticles: await initTavily(), await fetchTavilyNewsArticles, return
generateTopics_fetchTavilyNewsArticles ==
  /\ pc = "gt_tavily"
  /\ IF cnt["Tavily"] > 0
       THEN \E client \in BOOLEAN : \E o \in OutcomesIf(client) :
              /\ tavilyClient' = client
              /\ IF client
                   THEN /\ invoked' = invoked \cup {"Tavily"}
                        /\ failed' = IF o.ok THEN failed ELSE failed \cup {"Tavily"}
                        /\ ret' = [ret EXCEPT !["Tavily"] = RetOf("Tavily", o)]
                        /\ done' = Append(done, "Tavily")
                        /\ news' = news \o RetOf("Tavily", o)
                   ELSE UNCHANGED <<invoked, failed, ret, done, news>>
       ELSE UNCHANGED <<tavilyClient, invoked, failed, ret, done, news>>
  /\ tsettled' = tsettled \cup {"news"}
  /\ pc' = IF researchMode = "enhanced" THEN "gt_reddit" ELSE "gt_save"
  /\ UNCHANGED <<fvars, avars, entry, groqKey, outputPath, researchMode, opts, cnt, tstarted,
                 reddit, youtube, sources, dirs, files, genCalls, genOut, result, cvars>>

\* require('./scrape-reddit') gives the function or not; a throw is caught
generateTopics_fetchRedditPosts ==
  /\ pc = "gt_reddit"
  /\ \E avail \in BOOLEAN : \E o \in OutcomesIf(avail) :
       IF avail
         THEN /\ tstarted' = tstarted \cup {"reddit"}
              /\ tsettled' = tsettled \cup {"reddit"}
              /\ invoked' = invoked \cup {"Reddit"}
              /\ failed' = IF o.ok THEN failed ELSE failed \cup {"Reddit"}
              /\ ret' = [ret EXCEPT !["Reddit"] = RetOf("Reddit", o)]
              /\ done' = Append(done, "Reddit")
              /\ reddit' = RetOf("Reddit", o)
         ELSE UNCHANGED <<tstarted, tsettled, invoked, failed, ret, done, reddit>>
  /\ pc' = "gt_youtube"
  /\ UNCHANGED <<fvars, avars, entry, groqKey, outputPath, researchMode, opts, cnt, tavilyClient,
                 news, youtube, sources, dirs, files, genCalls, genOut, result, cvars>>

generateTopics_fetchYouTubeVideos ==
  /\ pc = "gt_youtube"
  /\ \E avail \in BOOLEAN : \E o \in OutcomesIf(avail) :
       IF avail
         THEN /\ tstarted' = tstarted \cup {"youtube"}
              /\ tsettled' = tsettled \cup {"youtube"}
              /\ invoked' = invoked \cup {"YouTube"}
              /\ failed' = IF o.ok THEN failed ELSE failed \cup {"YouTube"}
              /\ ret' = [ret EXCEPT !["YouTube"] = RetOf("YouTube", o)]
              /\ done' = Append(done, "YouTube")
              /\ youtube' = RetOf("YouTube", o)
         ELSE UNCHANGED <<tstarted, tsettled, invoked, failed, ret, done, youtube>>
  /\ pc' = "gt_save"
  /\ UNCHANGED <<fvars, avars, entry, groqKey, outputPath, researchMode, opts, cnt, tavilyClient,
                 news, reddit, sources, dirs, files, genCalls, genOut, result, cvars>>

\* if (outputPath) saveResearchData(researchData, category, outputPath)
generateTopics_saveResearchData ==
  /\ pc = "gt_save"
  /\ dirs' = IF outputPath THEN dirs \cup {"research"} ELSE dirs
  /\ files' = IF outputPath THEN files \cup {"research"} ELSE files
  /\ pc' = "gt_compose"
  /\ UNCHANGED <<fvars, avars, entry, groqKey, outputPath, researchMode, opts, cnt, tavilyClient,
                 tstarted, tsettled, invoked, failed, ret, done, news, reddit, youtube,
                 sources, genCalls, genOut, result, cvars>>

\* the same step if the prompt were saved whether or not a path was given
generateTopicIdeas_savePrompt_Always ==
  /\ pc = "gt_compose"
  /\ sources' = MergeSources(news, reddit, youtube)
  /\ dirs' = dirs \cup {"prompts"}
  /\ files' = files \cup {"prompt"}
  /\ pc' = "gt_complete"
  /\ UNCHANGED <<fvars, avars, entry, groqKey, outputPath, researchMode, opts, cnt, tavilyClient,
                 tstarted, tsettled, invoked, failed, ret, done, news, reddit, youtube,
                 genCalls, genOut, result, cvars>>

\* generateTopicIdeas up to the completion call: the prompt is built, and saved
\* if an output path was given
generateTopicIdeas_savePrompt ==
  /\ pc = "gt_compose"
  /\ sources' = MergeSources(news, reddit, youtube)
  /\ dirs' = IF outputPath THEN dirs \cup {"prompts"} ELSE dirs
  /\ files' = IF outputPath THEN files \cup {"prompt"} ELSE files
  /\ pc' = "gt_complete"
  /\ UNCHANGED <<fvars, avars, entry, groqKey, outputPath, researchMode, opts, cnt, tavilyClient,
                 tstarted, tsettled, invoked, failed, ret, done, news, reddit, youtube,
                 genCalls, genOut, result, cvars>>

\* if (!content) throw new Error('No content received from Groq API')
generateTopicIdeas_complete ==
  /\ pc = "gt_complete"
  /\ \E g \in TopicGenOutcomes :
       /\ genOut' = g
       /\ genCalls' = genCalls + 1
       /\ IF g \in {"throw", "empty"}
            THEN Throw("generation_error")
            ELSE pc' = "gt_write" /\ UNCHANGED result
  /\ UNCHANGED <<fvars, avars, entry, groqKey, outputPath, researchMode, opts, cnt, tavilyClient,
                 tstarted, tsettled, invoked, failed, ret, done, news, reddit, youtube,
                 sources, dirs, files, cvars>>

\* if (outputPath) writeToJsonFile(topicIdeas, outputPath); return topicsObject
\* topicsObject.topics.length throws when the completion was no JSON object
generateTopics_writeToJsonFile ==
  /\ pc = "gt_write"
  /\ dirs' = IF outputPath THEN dirs \cup {"output"} ELSE dirs
  /\ files' = IF outputPath THEN files \cup {"output"} ELSE files
  /\ result' = IF genOut = "nonobject" THEN "type_error" ELSE "returned"
  /\ pc' = "done"
  /\ UNCHANGED <<fvars, avars, entry, groqKey, outputPath, researchMode, opts, cnt, tavilyClient,
                 tstarted, tsettled, invoked, failed, ret, done, news, reddit, youtube,
                 sources, genCalls, genOut, cvars>>

Next ==
  \/ createBlog_CheckKey
  \/ createBlog_fetchNewsArticles
  \/ main_initTavily
  \/ main_fetchNewsArticles_Start
  \/ createBlog_fetchRedditPosts
  \/ createBlog_fetchYouTubeVideos
  \/ main_fetchNewsArticles_Bing
  \/ main_fetchNewsArticles_Tavily
  \/ createBlog_saveResearchData
  \/ generateBlogContent_savePrompt
  \/ generateBlogContent_complete
  \/ createBlog_writeToMarkdownFile
  \/ ContentBot_constructor
  \/ ContentBot_generateBlogContent
  \/ ContentBot_createBlog
  \/ generateTopics_Start
  \/ generateTopics_fetchBingNewsArticles
  \/ generateTopics_fetchTavilyNewsArticles
  \/ generateTopics_fetchRedditPosts
  \/ generateTopics_fetchYouTubeVideos
  \/ generateTopics_saveResearchData
  \/ generateTopicIdeas_savePrompt
  \/ generateTopicIdeas_complete
  \/ generateTopics_writeToJsonFile

Spec == Init /\ [][Next]_vars

\* the program as a whole: one adapter call on its own, or one run of an entry
\* point
InitProgram == InitAdapter \/ Init

NextProgram == NextAdapter \/ Next

SpecProgram == InitProgram /\ [][NextProgram]_vars

\* ------------------------------------------------------------ blog field extraction
\* Text is a sequence of tokens: a section marker, a word, a comma, white space.
Markers == {"TITLE", "META_DESCRIPTION", "SUMMARY", "TAGS", "BODY"}

Marker(m) == [kind |-> "marker", f |-> m, i |-> 0]

Word(m, i) == [kind |-> "word", f |-> m, i |-> i]

Comma == [kind |-> "comma", f |-> "", i |-> 0]

Sp == [kind |-> "sp", f |-> "", i |-> 0]

\* k words of field m, separated by a comma and a blank
Words(m, k) ==
  IF k = 0 THEN <<>>
  ELSE [j \in 1..(3 * k - 2) |->
          IF j % 3 = 1 THEN Word(m, (j + 2) \div 3)
          ELSE IF j % 3 = 2 THEN Comma ELSE Sp]

\* "MARKER: words\n"
Section(m, k) == <<Marker(m), Sp>> \o Words(m, k) \o <<Sp>>

\* the sections of the markers of order, one after the other
RECURSIVE Sections(_, _)
Sections(order, k) ==
  IF order = <<>> THEN <<>>
  ELSE Section(Head(order), k[Head(order)]) \o Sections(Tail(order), k)

\* every arrangement of some of the markers, each at most once
MarkerOrders ==
  {o \in UNION {[1..n -> Markers] : n \in 0..Cardinality(Markers)} :
     \A i, j \in 1..Len(o) : i # j => o[i] # o[j]}

\* how many words each section holds: one number for the three plain fields,
\* one for the tags, one for the body
WordCounts ==
  {[m \in Markers |-> IF m = "TAGS" THEN t ELSE IF m = "BODY" THEN b ELSE n] :
     n \in 0..MaxWords, t \in 0..MaxWords, b \in 0..MaxWords}

\* the raw completions: with or without words ahead of the first marker
RawTexts ==
  {(IF pre THEN <<Word("", 1), Sp>> ELSE <<>>) \o Sections(o, k) :
     pre \in BOOLEAN, o \in MarkerOrders, k \in WordCounts}

\* the first position at or after from where s holds tok, or 0
IndexOf(s, tok, from) ==
  IF \E i \in from..Len(s) : s[i] = tok
    THEN CHOOSE i \in from..Len(s) : s[i] = tok /\ \A j \in from..(i - 1) : s[j] # tok
    ELSE 0

\* String.prototype.trim
Trim(s) ==
  IF \A i \in 1..Len(s) : s[i] = Sp THEN <<>>
  ELSE LET a == CHOOSE i \in 1..Len(s) : s[i] # Sp /\ \A j \in 1..(i - 1) : s[j] = Sp
           b == CHOOSE i \in 1..Len(s) : s[i] # Sp /\ \A j \in (i + 1)..Len(s) : s[j] = Sp
       IN  SubSeq(s, a, b)

\* content.match(/M:(.*?)(?=STOP:|$)/s) : found, and the captured group
LazyMatch(content, m, stop) ==
  LET at == IndexOf(content, Marker(m), 1)
      end == IF at = 0 THEN 0 ELSE IndexOf(content, Marker(stop), at + 1)
  IN  [found |-> at # 0,
       group |-> IF at = 0 THEN <<>>
                 ELSE SubSeq(content, at + 1, IF end = 0 THEN Len(content) ELSE end - 1)]

\* content.match(/BODY:(.*)/s)
GreedyMatch(content, m) ==
  LET at == IndexOf(content, Marker(m), 1)
  IN  [found |-> at # 0,
       group |-> IF at = 0 THEN <<>> ELSE SubSeq(content, at + 1, Len(content))]

\* String.prototype.split(',') : the pieces between the commas, at least one
RECURSIVE Split(_)
Split(s) ==
  LET c == IndexOf(s, Comma, 1)
  IN  IF c = 0 THEN <<s>>
      ELSE <<SubSeq(s, 1, c - 1)>> \o Split(SubSeq(s, c + 1, Len(s)))

\* tagsMatch[1].trim().split(',').map(tag => tag.trim())
TagList(group) ==
  LET pieces == Split(Trim(group))
  IN  [i \in 1..Len(pieces) |-> Trim(pieces[i])]

parseStructuredContent(content) ==
  LET titleMatch == LazyMatch(content, "TITLE", "META_DESCRIPTION")
      metaDescriptionMatch == LazyMatch(content, "META_DESCRIPTION", "SUMMARY")
      summaryMatch == LazyMatch(content, "SUMMARY", "TAGS")
      tagsMatch == LazyMatch(content, "TAGS", "BODY")
      bodyMatch == GreedyMatch(content, "BODY")
  IN  [title |-> IF titleMatch.found THEN Trim(titleMatch.group) ELSE <<>>,
       metaDescription |->
         IF metaDescriptionMatch.found THEN Trim(metaDescriptionMatch.group) ELSE <<>>,
       summary |-> IF summaryMatch.found THEN Trim(summaryMatch.group) ELSE <<>>,
       tags |-> IF tagsMatch.found /\ tagsMatch.group # <<>>
                  THEN TagList(tagsMatch.group) ELSE <<>>,
       body |-> IF bodyMatch.found THEN Trim(bodyMatch.group) ELSE content,
       rawContent |-> content]

InitParse ==
  /\ AdapterIdle
  /\ PipelineIdle
  /\ ConcurrencyIdle
  /\ f_fn = "parseStructuredContent"
  /\ f_in \in RawTexts
  /\ f_pc = "call"
  /\ f_out = <<>>

parseStructuredContent_Call ==
  /\ f_pc = "call"
  /\ f_fn = "parseStructuredContent"
  /\ f_out' = parseStructuredContent(f_in)
  /\ f_pc' = "done"
  /\ UNCHANGED <<f_fn, f_in, avars, pvars, cvars>>

NextParse == parseStructuredContent_Call

SpecParse == InitParse /\ [][NextParse]_vars

\* ------------------------------------------------------------ topic-list parsing
\* A raw completion is described by what decides its fate: what stands around
\* the payload, whether a Markdown fence wraps it, what the payload is, and for
\* an object its keys, its string values and its top-level fields.
TopFields == {"topics", "category", "audience", "generatedAt"}

JsonKinds == {"object", "array", "scalar", "null"}

\* payloads that are no JSON: prose, prose holding braces, and what is left of
\* an array of several objects cut at its first { and last }
TextKinds == {"prose", "braced", "fragments"}

Text(lead, fence, kind, keys, esc, fields, n) ==
  [lead |-> lead, fence |-> fence, kind |-> kind, keys |-> keys, esc |-> esc,
   fields |-> fields, n |-> n]

NoText == Text("none", FALSE, "nil", "quoted", "none", {}, 0)

\* lead: "none", "ws" (white space around), "prose" (words around)
\* keys: "quoted", "unquoted";  esc: "none", "escaped" (a value holds \"), "broken"
ObjectTexts ==
  {Text(l, f, "object", k, e, fs, n) :
     l \in {"none", "ws", "prose"}, f \in BOOLEAN, k \in {"quoted", "unquoted"},
     e \in {"none", "escaped"}, fs \in SUBSET TopFields, n \in 0..MaxTopics}

TopicTexts ==
  {t \in ObjectTexts : (t.n > 0) = ("topics" \in t.fields)}
  \cup {Text(l, f, "array", "quoted", "none", {}, n) :
          l \in {"none", "ws", "prose"}, f \in BOOLEAN, n \in 0..MaxTopics}
  \cup {Text(l, f, k, "quoted", "none", {}, 0) :
          l \in {"none", "ws", "prose"}, f \in BOOLEAN, k \in {"scalar", "null", "braced"}}
  \cup {Text(l, f, "prose", "quoted", "none", {}, 0) : l \in {"none", "ws"}, f \in BOOLEAN}

\* JSON.parse(text) returns a value rather than throwing
Parses(t) ==
  /\ t.lead \in {"none", "ws"}
  /\ ~t.fence
  /\ t.kind \in JsonKinds
  /\ t.keys = "quoted"
  /\ t.esc # "broken"

\* What a parse returns: the stage it ended at, the steps it took in order
\* ("parse": one JSON.parse of the text, "repair": the textual replacements), and
\* the document.
\* a document: the value a parse stage ends with, as JSON.stringify renders it
Doc(kind, fields, filled, n, raw, err) ==
  [kind |-> kind, fields |-> fields, filled |-> filled, n |-> n,
   rawContent |-> raw, error |-> err]

\* if (!jsonData.topics) jsonData.topics = [] ; ... ; JSON.stringify(jsonData)
\* An assignment to a property of a number, a string or a boolean is dropped,
\* and JSON.stringify renders only the elements of an array.
Backfill(t, extra) ==
  IF t.kind = "object"
    THEN Doc("object", TopFields \cup extra, TopFields \ t.fields, t.n, NoText, FALSE)
    ELSE Doc(t.kind, {}, {}, t.n, NoText, FALSE)

\* the fallback document
Fallback(raw, extra) ==
  Doc("object", TopFields \cup {"rawContent", "error"} \cup extra, TopFields, 0, raw, TRUE)

\* reading a property of null throws
BackfillThrows(t) == t.kind = "null"

\* fixedContent: styleTypeKeyword": renamed, unquoted property keys quoted
FixedContent(t) == [t EXCEPT !.keys = "quoted"]

\* bin/generate-topics.js: direct parse, repaired parse, fallback
GenTopics_parse(content) ==
  IF Parses(content) /\ ~BackfillThrows(content)
    THEN [stage |-> "direct", steps |-> <<"parse">>,
          doc |-> Backfill(content, {"additionalResearch"})]
    ELSE IF Parses(FixedContent(content)) /\ ~BackfillThrows(FixedContent(content))
      THEN [stage |-> "repaired", steps |-> <<"parse", "repair", "parse">>,
            doc |-> Backfill(FixedContent(content), {"additionalResearch"})]
      ELSE [stage |-> "fallback", steps |-> <<"parse", "repair", "parse">>,
            doc |-> Fallback(content, {"additionalResearch"})]

\* content.match(/(\{[\s\S]*\})/) : from the first { to the last }
JsonMatch(t) ==
  CASE t.kind = "object" -> [t EXCEPT !.lead = "none", !.fence = FALSE]
    [] t.kind = "braced" -> [t EXCEPT !.lead = "none", !.fence = FALSE]
    [] t.kind = "array" /\ t.n = 1 ->
         Text("none", FALSE, "object", "quoted", "none", {}, 0)
    [] t.kind = "array" /\ t.n > 1 ->
         Text("none", FALSE, "fragments", "quoted", "none", {}, 0)
    [] OTHER -> t

\* .replace(/```json/g, '').replace(/```/g, '').replace(/\\"/g, '"')
\* .replace(/\t/g, '  ').trim()
Cleanup(t) ==
  [t EXCEPT !.fence = FALSE,
            !.esc = IF t.esc = "escaped" THEN "broken" ELSE t.esc,
            !.lead = IF t.lead = "ws" THEN "none" ELSE t.lead]

\* generate-topics.js: clean up, one parse, fallback
Root_parse(content) ==
  LET cleaned == Cleanup(JsonMatch(content))
  IN  IF Parses(cleaned) /\ ~BackfillThrows(cleaned)
        THEN [stage |-> "direct", steps |-> <<"repair", "parse">>,
              doc |-> Backfill(cleaned, {})]
        ELSE [stage |-> "fallback", steps |-> <<"repair", "parse">>,
              doc |-> Fallback(cleaned, {})]

TopicFns == {"GenTopics.generateTopicIdeas", "Root.generateTopicIdeas"}

InitTopics ==
  /\ AdapterIdle
  /\ PipelineIdle
  /\ ConcurrencyIdle
  /\ f_fn \in TopicFns
  /\ f_in \in TopicTexts
  /\ f_pc = "call"
  /\ f_out = <<>>

GenTopics_generateTopicIdeas_Parse ==
  /\ f_pc = "call"
  /\ f_fn = "GenTopics.generateTopicIdeas"
  /\ f_out' = GenTopics_parse(f_in) @@ [outcome |-> "pending"]
  /\ f_pc' = "parsed"
  /\ UNCHANGED <<f_fn, f_in, avars, pvars, cvars>>

Root_generateTopicIdeas_Parse ==
  /\ f_pc = "call"
  /\ f_fn = "Root.generateTopicIdeas"
  /\ f_out' = Root_parse(f_in) @@ [outcome |-> "pending"]
  /\ f_pc' = "parsed"
  /\ UNCHANGED <<f_fn, f_in, avars, pvars, cvars>>

\* const topicsObject = JSON.parse(topicIdeas); ... topicsObject.topics.length
GenTopics_generateTopics_Return ==
  /\ f_pc = "parsed"
  /\ f_fn = "GenTopics.generateTopicIdeas"
  /\ f_out' = [f_out EXCEPT !.outcome =
                 IF "topics" \in f_out.doc.fields THEN "returned" ELSE "thrown"]
  /\ f_pc' = "done"
  /\ UNCHANGED <<f_fn, f_in, avars, pvars, cvars>>

\* writeToJsonFile(topicIdeas, jsonOutput)
Root_main_Return ==
  /\ f_pc = "parsed"
  /\ f_fn = "Root.generateTopicIdeas"
  /\ f_out' = [f_out EXCEPT !.outcome = "returned"]
  /\ f_pc' = "done"
  /\ UNCHANGED <<f_fn, f_in, avars, pvars, cvars>>

NextTopics ==
  \/ GenTopics_generateTopicIdeas_Parse
  \/ Root_generateTopicIdeas_Parse
  \/ GenTopics_generateTopics_Return
  \/ Root_main_Return

SpecTopics == InitTopics /\ [][NextTopics]_vars

\* ------------------------------------------------------------ prompt composition
\* A keyword entry is what stands between two commas: a word, possibly empty,
\* possibly padded with white space.
KeywordWords == {"", "seo", "ai"}

KeywordEntries == [pad : BOOLEAN, word : KeywordWords]

EntrySeqs(lo) == UNION {[1..n -> KeywordEntries] : n \in lo..MaxKeywords}

\* the keywords argument: undefined, a string (its entries are what split(',')
\* yields, so the empty string is one empty entry), or an array of strings
KeywordInputs ==
  {[type |-> "absent", entries |-> <<>>]}
  \cup {[type |-> "string", entries |-> es] : es \in EntrySeqs(1)}
  \cup {[type |-> "list", entries |-> es] : es \in EntrySeqs(0)}

EmptyString(kw) ==
  kw.type = "string" /\ Len(kw.entries) = 1 /\ kw.entries[1] = [pad |-> FALSE, word |-> ""]

\* if (keywords)
Truthy(kw) == kw.type = "list" \/ (kw.type = "string" /\ ~EmptyString(kw))

\* k => k.trim()
TrimEntry(e) == e.word

\* keywordsStr.split(',').map(k => k.trim())
KeywordsList(es) == [i \in 1..Len(es) |-> TrimEntry(es[i])]

\* Array.isArray(keywords) ? keywords.join(',') : String(keywords || '')
KeywordsStr(kw) ==
  IF kw.type = "list" /\ kw.entries = <<>>
    THEN <<[pad |-> FALSE, word |-> ""]>>
    ELSE kw.entries

\* keywordsStr.trim() is not empty
NonEmptyTrimmed(es) == Len(es) > 1 \/ es[1].word # ""

NoBlock == [rendered |-> FALSE, list |-> <<>>, primary |-> <<>>]

\* the SEO INSTRUCTIONS block of a blog prompt; split is no method of an array
CreateBlog_seoInstructionsText(kw) ==
  IF ~Truthy(kw) THEN [thrown |-> FALSE, block |-> NoBlock]
  ELSE IF kw.type = "list" THEN [thrown |-> TRUE, block |-> NoBlock]
  ELSE [thrown |-> FALSE,
        block |-> [rendered |-> TRUE, list |-> KeywordsList(kw.entries),
                   primary |-> <<KeywordsList(kw.entries)[1]>>]]

\* the KEYWORDS TO INCLUDE block of a topics prompt; no entry is marked
GenTopics_keywordsText(kw) ==
  IF Truthy(kw) /\ NonEmptyTrimmed(KeywordsStr(kw))
    THEN [thrown |-> FALSE,
          block |-> [rendered |-> TRUE, list |-> KeywordsList(KeywordsStr(kw)),
                     primary |-> <<>>]]
    ELSE [thrown |-> FALSE, block |-> NoBlock]

Locales == {"en-US", "de-DE"}

Days == 1..MaxDay

ViewClasses == {"none", "small", "large"}

\* video.viewCount?.toLocaleString(): digits are grouped, by the separator of
\* the process locale, from a thousand on
ViewsText(views, locale) ==
  IF views = "large" THEN <<views, locale>> ELSE <<views>>

Bundles == [news : 0..MaxItems, views : ViewClasses]

ComposeFns == {"CreateBlog.generateBlogContent", "GenTopics.generateTopicIdeas"}

\* the prompt of a blog post: front matter date off the clock, the numbered
\* sources, the SEO block; the per-platform texts are built and left out
CreateBlog_prompt(args, day, locale) ==
  LET seo == CreateBlog_seoInstructionsText(args.keywords)
  IN  [thrown |-> seo.thrown,
       date |-> day,
       sources |-> args.bundle.news + (IF args.bundle.views = "none" THEN 0 ELSE 1),
       views |-> <<>>,
       keywords |-> seo.block]

\* the prompt of a topic list: generatedAt off the clock, the per-platform
\* texts, the keywords block
GenTopics_prompt(args, day, locale) ==
  LET kt == GenTopics_keywordsText(args.keywords)
  IN  [thrown |-> kt.thrown,
       date |-> day,
       sources |-> args.bundle.news,
       views |-> ViewsText(args.bundle.views, locale),
       keywords |-> kt.block]

InitCompose ==
  /\ AdapterIdle
  /\ PipelineIdle
  /\ ConcurrencyIdle
  /\ f_fn \in ComposeFns
  /\ f_in \in [keywords : KeywordInputs, bundle : Bundles]
  /\ f_pc = "compose"
  /\ f_out = <<>>

\* the clock does not run backwards between two compositions
ClockReads == {d \in Days : f_out = <<>> \/ d >= f_out[Len(f_out)].date}

CreateBlog_generateBlogContent_Compose ==
  /\ f_pc = "compose"
  /\ f_fn = "CreateBlog.generateBlogContent"
  /\ \E day \in ClockReads, locale \in Locales :
       f_out' = Append(f_out, CreateBlog_prompt(f_in, day, locale))
  /\ f_pc' = IF Len(f_out) = 1 THEN "composed" ELSE "compose"
  /\ UNCHANGED <<f_fn, f_in, avars, pvars, cvars>>

GenTopics_generateTopicIdeas_Compose ==
  /\ f_pc = "compose"
  /\ f_fn = "GenTopics.generateTopicIdeas"
  /\ \E day \in ClockReads, locale \in Locales :
       f_out' = Append(f_out, GenTopics_prompt(f_in, day, locale))
  /\ f_pc' = IF Len(f_out) = 1 THEN "composed" ELSE "compose"
  /\ UNCHANGED <<f_fn, f_in, avars, pvars, cvars>>

NextCompose ==
  \/ CreateBlog_generateBlogContent_Compose
  \/ GenTopics_generateTopicIdeas_Compose

SpecCompose == InitCompose /\ [][NextCompose]_vars

\* ------------------------------------------------------------ item titles
\* How an adapter turns the entries of an external response into items, as far
\* as the title goes.  An entry of a feed holds a title element with text, with
\* a blank, with nothing, with an empty CDATA section, or no title element; a
\* post of a JSON listing holds a title with text, a blank, "", or none.

FeedTitles == {"text", "blank", "empty", "emptycdata", "absent"}

ListingTitles == {"text", "blank", "empty", "absent"}

TitleFns == {"CreateBlog.fetchBingNewsArticles", "ScrapeBing.fetchBingNewsArticles",
             "ScrapeReddit.fetchRedditPosts"}

TitlesOf(fn) == IF fn = "ScrapeReddit.fetchRedditPosts" THEN ListingTitles ELSE FeedTitles

EntryTitles(fn) == UNION {[1..n -> TitlesOf(fn)] : n \in 1..MaxEntries}

NoTitle == [defined |-> FALSE, s |-> ""]

TitleOf(str) == [defined |-> TRUE, s |-> str]

\* what <title>(.*?)<\/title> captures, what post.title reads
RawTitle(k) ==
  CASE k = "text"       -> "Title"
    [] k = "blank"      -> " "
    [] k = "empty"      -> ""
    [] k = "emptycdata" -> "<![CDATA[]]>"

\* .replace(/<!\[CDATA\[(.*?)\]\]>/g, '$1')
StripCData(str) == IF str = "<![CDATA[]]>" THEN "" ELSE str

\* String.prototype.trim
TrimTitle(str) == IF str = " " THEN "" ELSE str

\* the feed pattern matches no entry without a title element; every match is pushed
CreateBlog_titles(entries) ==
  LET matched == Filter(entries, LAMBDA k : k # "absent")
  IN  [i \in 1..Len(matched) |-> TitleOf(StripCData(RawTitle(matched[i])))]

\* if (match[1] && ...) before the replacements
ScrapeBing_titles(entries) ==
  LET matched == Filter(entries, LAMBDA k : k # "absent")
      pushed  == Filter(matched, LAMBDA k : RawTitle(k) # "")
  IN  [i \in 1..Len(pushed) |-> TitleOf(StripCData(RawTitle(pushed[i])))]

\* title: post.title, for every t3 child
ScrapeReddit_titles(entries) ==
  [i \in 1..Len(entries) |->
     IF entries[i] = "absent" THEN NoTitle ELSE TitleOf(RawTitle(entries[i]))]

InitTitles ==
  /\ AdapterIdle
  /\ PipelineIdle
  /\ ConcurrencyIdle
  /\ f_fn \in TitleFns
  /\ f_in \in EntryTitles(f_fn)
  /\ f_pc = "map"
  /\ f_out = <<>>

CreateBlog_fetchBingNewsArticles_Map ==
  /\ f_fn = "CreateBlog.fetchBingNewsArticles"
  /\ f_pc = "map"
  /\ f_out' = CreateBlog_titles(f_in)
  /\ f_pc' = "mapped"
  /\ UNCHANGED <<avars, pvars, f_fn, f_in, cvars>>

ScrapeBing_fetchBingNewsArticles_Map ==
  /\ f_fn = "ScrapeBing.fetchBingNewsArticles"
  /\ f_pc = "map"
  /\ f_out' = ScrapeBing_titles(f_in)
  /\ f_pc' = "mapped"
  /\ UNCHANGED <<avars, pvars, f_fn, f_in, cvars>>

ScrapeReddit_fetchRedditPosts_Map ==
  /\ f_fn = "ScrapeReddit.fetchRedditPosts"
  /\ f_pc = "map"
  /\ f_out' = ScrapeReddit_titles(f_in)
  /\ f_pc' = "mapped"
  /\ UNCHANGED <<avars, pvars, f_fn, f_in, cvars>>

NextTitles ==
  \/ CreateBlog_fetchBingNewsArticles_Map
  \/ ScrapeBing_fetchBingNewsArticles_Map
  \/ ScrapeReddit_fetchRedditPosts_Map

SpecTitles == InitTitles /\ [][NextTitles]_vars

\* ------------------------------------------------------------ title properties
Mapped == f_fn \in TitleFns /\ f_pc = "mapped"

\* C28: every item an adapter returns has a title that is non-empty after
\* trimming; an entry whose title is empty, blank or absent is discarded.
C28_TitledItems ==
  Mapped =>
     /\ \A i \in 1..Len(f_out) : f_out[i].defined /\ TrimTitle(f_out[i].s) # ""
     /\ Len(f_out) = Len(Filter(f_in, LAMBDA k : k = "text"))

\* ------------------------------------------------------------ the cached search client
\* generateTopics runs of one process sharing the module-level tavilyInitialized
\* and tavilyClient.  A run awaits the Bing fetch, then calls initTavily, which
\* runs to its await import('tavily') in one turn and from there to its return
\* in another.

TavilyModules == {"ok", "noclass", "throws"}

InitTavily ==
  /\ AdapterIdle
  /\ PipelineIdle
  /\ FunctionIdle
  /\ tavilyKey \in BOOLEAN
  /\ tavilyModule \in TavilyModules
  /\ tavilyInitialized = FALSE
  /\ tavilyHandle = 0
  /\ constructed = 0
  /\ i_pc = [r \in Runs |-> "idle"]
  /\ i_ret = [r \in Runs |-> "none"]
  /\ x_fn = "none"
  /\ tempFile = NoFile
  /\ x_pc = [r \in Runs |-> "idle"]
  /\ x_wrote = [r \in Runs |-> FALSE]
  /\ x_read = [r \in Runs |-> NoFile]
  /\ x_ret = [r \in Runs |-> {}]

\* fetchNewsArticles is entered and awaits fetchBingNewsArticles
GenTopics_fetchNewsArticles_Enter(r) ==
  /\ i_pc[r] = "idle"
  /\ i_pc' = [i_pc EXCEPT ![r] = "bing"]
  /\ i_ret' = [i_ret EXCEPT ![r] = "none"]
  /\ UNCHANGED <<avars, pvars, fvars, tavilyKey, tavilyModule, tavilyInitialized,
                 tavilyHandle, constructed, x_fn, tempFile, x_pc, x_wrote, x_read, x_ret>>

\* initTavily up to its first await
GenTopics_initTavily_Call(r) ==
  /\ i_pc[r] = "bing"
  /\ IF ~tavilyKey
       THEN /\ i_pc' = [i_pc EXCEPT ![r] = "returned"]
            /\ i_ret' = [i_ret EXCEPT ![r] = FALSE]
       ELSE IF tavilyInitialized /\ tavilyHandle # 0
       THEN /\ i_pc' = [i_pc EXCEPT ![r] = "returned"]
            /\ i_ret' = [i_ret EXCEPT ![r] = TRUE]
       ELSE /\ i_pc' = [i_pc EXCEPT ![r] = "import"]
            /\ UNCHANGED i_ret
  /\ UNCHANGED <<avars, pvars, fvars, tavilyKey, tavilyModule, tavilyInitialized,
                 tavilyHandle, constructed, x_fn, tempFile, x_pc, x_wrote, x_read, x_ret>>

\* initTavily after the import settled
GenTopics_initTavily_Imported(r) ==
  /\ i_pc[r] = "import"
  /\ i_pc' = [i_pc EXCEPT ![r] = "returned"]
  /\ IF tavilyModule = "ok"
       THEN /\ constructed' = constructed + 1
            /\ tavilyHandle' = constructed + 1
            /\ tavilyInitialized' = TRUE
            /\ i_ret' = [i_ret EXCEPT ![r] = TRUE]
       ELSE /\ i_ret' = [i_ret EXCEPT ![r] = FALSE]
            /\ UNCHANGED <<constructed, tavilyHandle, tavilyInitialized>>
  /\ UNCHANGED <<avars, pvars, fvars, tavilyKey, tavilyModule,
                 x_fn, tempFile, x_pc, x_wrote, x_read, x_ret>>

\* the run ends; the caller may start another
GenTopics_fetchNewsArticles_Return(r) ==
  /\ i_pc[r] = "returned"
  /\ i_pc' = [i_pc EXCEPT ![r] = "idle"]
  /\ UNCHANGED <<avars, pvars, fvars, tavilyKey, tavilyModule, tavilyInitialized,
                 tavilyHandle, constructed, i_ret, x_fn, tempFile, x_pc, x_wrote, x_read, x_ret>>

NextTavily ==
  \/ \E r \in Runs : GenTopics_fetchNewsArticles_Enter(r)
  \/ \E r \in Runs : GenTopics_initTavily_Call(r)
  \/ \E r \in Runs : GenTopics_initTavily_Imported(r)
  \/ \E r \in Runs : GenTopics_fetchNewsArticles_Return(r)

SpecTavily == InitTavily /\ [][NextTavily]_vars

\* ------------------------------------------------------------ cached-client properties
\* C29: under every interleaving of initTavily calls at most one client is
\* constructed, tavilyInitialized implies a non-null tavilyClient, and neither
\* is reset once set.
C29_ClientCached ==
  /\ [](constructed <= 1)
  /\ [](tavilyInitialized => tavilyHandle # 0)
  /\ [][/\ tavilyInitialized => tavilyInitialized'
        /\ tavilyHandle # 0 => tavilyHandle' # 0]_vars

\* ------------------------------------------------------------ the fixed temporary file
\* Pipeline runs, each its own node process, calling the same shelling adapter:
\* execSync of the scraper script, then existsSync, readFileSync and unlinkSync
\* on one path under __dirname that every run shares.  A file may be there
\* before any of them starts, left by an earlier run (writer 0).

ShellFns == {"CreateBlog.fetchRedditPosts", "Part001.fetchNewsArticles",
             "Part001.fetchYouTubeVideos"}

\* scrape-bing.js writes whatever it found; scrape-reddit.js and
\* scrape-youtube.js exit before writing when they found nothing
WritesWhenEmpty(fn) == fn = "Part001.fetchNewsArticles"

LeftOver == [by |-> 0, n |-> 1]

ScraperOutcomes == {"items", "empty", "failed"}

InitTempFile ==
  /\ AdapterIdle
  /\ PipelineIdle
  /\ FunctionIdle
  /\ tavilyKey = FALSE
  /\ tavilyModule = "ok"
  /\ tavilyInitialized = FALSE
  /\ tavilyHandle = 0
  /\ constructed = 0
  /\ i_pc = [r \in Runs |-> "idle"]
  /\ i_ret = [r \in Runs |-> "none"]
  /\ x_fn \in ShellFns
  /\ tempFile \in {NoFile, LeftOver}
  /\ x_pc = [r \in Runs |-> "exec"]
  /\ x_wrote = [r \in Runs |-> FALSE]
  /\ x_read = [r \in Runs |-> NoFile]
  /\ x_ret = [r \in Runs |-> {}]

\* the call returns the items of the given writers
Returns(r, writers) ==
  /\ x_pc' = [x_pc EXCEPT ![r] = "done"]
  /\ x_ret' = [x_ret EXCEPT ![r] = writers]

\* execSync(command): the scraper runs to its end; a non-zero exit throws
Shell_execSync(r) ==
  /\ x_fn \in ShellFns
  /\ x_pc[r] = "exec"
  /\ \E o \in ScraperOutcomes :
       CASE o = "items" ->
              /\ tempFile' = [by |-> r, n |-> 1]
              /\ x_wrote' = [x_wrote EXCEPT ![r] = TRUE]
              /\ x_pc' = [x_pc EXCEPT ![r] = "exists"]
              /\ UNCHANGED x_ret
         [] o = "empty" ->
              /\ tempFile' = IF WritesWhenEmpty(x_fn) THEN [by |-> r, n |-> 0] ELSE tempFile
              /\ x_pc' = [x_pc EXCEPT ![r] = "exists"]
              /\ UNCHANGED <<x_wrote, x_ret>>
         [] o = "failed" ->
              /\ Returns(r, {})
              /\ UNCHANGED <<tempFile, x_wrote>>
  /\ UNCHANGED <<avars, pvars, fvars, tavilyKey, tavilyModule, tavilyInitialized,
                 tavilyHandle, constructed, i_pc, i_ret, x_fn, x_read>>

\* if (!fs.existsSync(tempFile)) return []
Shell_existsSync(r) ==
  /\ x_fn \in ShellFns
  /\ x_pc[r] = "exists"
  /\ IF tempFile = NoFile
       THEN Returns(r, {})
       ELSE x_pc' = [x_pc EXCEPT ![r] = "read"] /\ UNCHANGED x_ret
  /\ UNCHANGED <<avars, pvars, fvars, tavilyKey, tavilyModule, tavilyInitialized,
                 tavilyHandle, constructed, i_pc, i_ret, x_fn, tempFile, x_wrote, x_read>>

\* JSON.parse(fs.readFileSync(tempFile, 'utf8')); ENOENT is caught and gives []
Shell_readFileSync(r) ==
  /\ x_fn \in ShellFns
  /\ x_pc[r] = "read"
  /\ IF tempFile = NoFile
       THEN Returns(r, {}) /\ UNCHANGED x_read
       ELSE /\ x_read' = [x_read EXCEPT ![r] = tempFile]
            /\ x_pc' = [x_pc EXCEPT ![r] = "unlink"]
            /\ UNCHANGED x_ret
  /\ UNCHANGED <<avars, pvars, fvars, tavilyKey, tavilyModule, tavilyInitialized,
                 tavilyHandle, constructed, i_pc, i_ret, x_fn, tempFile, x_wrote>>

\* fs.unlinkSync(tempFile), then the items read are returned; ENOENT is caught
\* and gives []
Shell_unlinkSync(r) ==
  /\ x_fn \in ShellFns
  /\ x_pc[r] = "unlink"
  /\ IF tempFile = NoFile
       THEN Returns(r, {}) /\ UNCHANGED tempFile
       ELSE /\ tempFile' = NoFile
            /\ Returns(r, IF x_read[r].n = 0 THEN {} ELSE {x_read[r].by})
  /\ UNCHANGED <<avars, pvars, fvars, tavilyKey, tavilyModule, tavilyInitialized,
                 tavilyHandle, constructed, i_pc, i_ret, x_fn, x_wrote, x_read>>

NextTempFile ==
  \/ \E r \in Runs : Shell_execSync(r)
  \/ \E r \in Runs : Shell_existsSync(r)
  \/ \E r \in Runs : Shell_readFileSync(r)
  \/ \E r \in Runs : Shell_unlinkSync(r)

SpecTempFile == InitTempFile /\ [][NextTempFile]_vars

\* ------------------------------------------------------------ temporary-file properties
\* C30: every item a shelling adapter call returns was written by the scraper
\* run of that same call: it never returns another run's items and never
\* loses its own.
C30_OwnItemsOnly ==
  \A r \in Runs :
     (x_fn \in ShellFns /\ x_pc[r] = "done") =>
        x_ret[r] = IF x_wrote[r] THEN {r} ELSE {}

\* ------------------------------------------------------------ composition properties
ComposedOnce == f_fn \in ComposeFns /\ f_pc \in {"compose", "composed"} /\ Len(f_out) >= 1

ComposedTwice == f_fn \in ComposeFns /\ f_pc = "composed"

\* the keywords of an input that are not blank
HasNonBlank(kw) == \E i \in 1..Len(kw.entries) : kw.entries[i].word # ""

\* C18: a keywords block is rendered only if some supplied keyword is not
\* blank, and a rendered block marks its first keyword as the primary one.
C18_KeywordsBlock ==
  (ComposedOnce /\ f_out[1].keywords.rendered) =>
     /\ HasNonBlank(f_in.keywords)
     /\ f_out[1].keywords.primary = <<f_out[1].keywords.list[1]>>

\* C19: two compositions with the same arguments render the same text.
C19_Deterministic == ComposedTwice => f_out[1] = f_out[2]

\* ------------------------------------------------------------ topic-list properties
Finished == f_fn \in TopicFns /\ f_pc = "done"

ParsedTopics == f_fn \in TopicFns /\ f_pc \in {"parsed", "done"}

\* C14: whatever the non-empty completion text is, the run ends with a result
\* handed to the caller; nothing is thrown because of the text.
C14_AlwaysReturns == Finished => f_out.outcome = "returned"

\* otherwise-valid topic JSON inside a Markdown fence
FencedTopicJson(t) ==
  /\ t.fence
  /\ t.lead \in {"none", "ws"}
  /\ t.kind = "object"
  /\ t.keys = "quoted"
  /\ t.esc = "none"
  /\ t.fields = TopFields
  /\ t.n > 0

\* C15: a fence around valid topic JSON is stripped and the parse succeeds
\* with every topic of the wrapped JSON, not with the degraded shape.
C15_FenceStripped ==
  (ParsedTopics /\ FencedTopicJson(f_in)) =>
     /\ f_out.stage # "fallback"
     /\ f_out.doc.n = f_in.n

\* text that is no JSON and that no repair turns into JSON
Unrepairable(t) == t.kind \in {"prose", "braced"}

\* C16: text that is neither JSON nor repairable yields the degraded shape:
\* no topics, rawContent equal to the unmodified input, and an error string.
C16_DegradedShape ==
  (ParsedTopics /\ Unrepairable(f_in)) =>
     /\ f_out.stage = "fallback"
     /\ f_out.doc.n = 0
     /\ "topics" \in f_out.doc.fields
     /\ f_out.doc.rawContent = f_in
     /\ f_out.doc.error

\* C26: the raw text is parsed first; the repairs come only after that parse
\* failed and are followed by one more parse, after which nothing is tried.
C26_AtMostOneRetry ==
  ParsedTopics =>
    /\ f_out.steps \in {<<"parse">>, <<"parse", "repair", "parse">>}
    /\ (f_out.stage = "direct") = (f_out.steps = <<"parse">>)

\* C17: a parse that succeeds, directly or after repair, returns a result
\* holding category, audience, generatedAt and topics, whatever JSON value
\* the parse yielded.
C17_SchemaComplete ==
  (ParsedTopics /\ f_out.stage \in {"direct", "repaired"}) =>
     TopFields \subseteq f_out.doc.fields

\* ------------------------------------------------------------ extraction properties
Parsed == f_fn = "parseStructuredContent" /\ f_pc = "done"

\* C11: the body of the document parseStructuredContent returns is never empty.
C11_BodyNeverEmpty ==
  Parsed => f_out.body # <<>>

\* the text holds every marker
HasAllMarkers(text) == \A m \in Markers : IndexOf(text, Marker(m), 1) # 0

\* the tokens after marker m up to the next marker, whichever it is, or the end
UntilNextMarker(text, m) ==
  LET at == IndexOf(text, Marker(m), 1)
      later == {i \in (at + 1)..Len(text) : text[i].kind = "marker"}
      end == IF later = {} THEN Len(text)
             ELSE (CHOOSE i \in later : \A j \in later : i <= j) - 1
  IN  SubSeq(text, at + 1, end)

\* the text holds no marker and no word of another field than m
OwnContentOnly(text, m) ==
  \A i \in 1..Len(text) :
    /\ text[i].kind # "marker"
    /\ text[i].kind = "word" => text[i].f = m

\* C12: for every arrangement of the five markers each field is what stands
\* between its marker and the next marker or the end, and holds no other
\* field's content.
C12_OrderIndependent ==
  (Parsed /\ HasAllMarkers(f_in)) =>
    /\ f_out.title = Trim(UntilNextMarker(f_in, "TITLE"))
    /\ f_out.metaDescription = Trim(UntilNextMarker(f_in, "META_DESCRIPTION"))
    /\ f_out.summary = Trim(UntilNextMarker(f_in, "SUMMARY"))
    /\ f_out.body = Trim(UntilNextMarker(f_in, "BODY"))
    /\ OwnContentOnly(f_out.title, "TITLE")
    /\ OwnContentOnly(f_out.metaDescription, "META_DESCRIPTION")
    /\ OwnContentOnly(f_out.summary, "SUMMARY")
    /\ OwnContentOnly(f_out.body, "BODY")
    /\ \A t \in 1..Len(f_out.tags) : OwnContentOnly(f_out.tags[t], "TAGS")

InOrder == <<"TITLE", "META_DESCRIPTION", "SUMMARY", "TAGS", "BODY">>

\* the k tags of a TAGS section, one word each
KnownTags(k) == [i \in 1..k |-> <<Word("TAGS", i)>>]

\* C13: from a text with the five markers in order every field's content is
\* recovered; from a text with the BODY marker only, body is what follows the
\* marker and title, metaDescription and summary are empty.
C13_RoundTrip ==
  Parsed =>
    \A k \in WordCounts :
      /\ f_in = Sections(InOrder, k) =>
           /\ f_out.title = Words("TITLE", k["TITLE"])
           /\ f_out.metaDescription = Words("META_DESCRIPTION", k["META_DESCRIPTION"])
           /\ f_out.summary = Words("SUMMARY", k["SUMMARY"])
           /\ f_out.tags = KnownTags(k["TAGS"])
           /\ f_out.body = Words("BODY", k["BODY"])
      /\ f_in = Sections(<<"BODY">>, k) =>
           /\ f_out.body = Words("BODY", k["BODY"])
           /\ f_out.title = <<>>
           /\ f_out.metaDescription = <<>>
           /\ f_out.summary = <<>>

\* ------------------------------------------------------------ pipeline properties
\* the run is past its research aggregation
Aggregated ==
  \/ pc \in {"save_research", "compose", "complete", "write",
             "gt_save", "gt_compose", "gt_complete", "gt_write"}
  \/ pc = "done" /\ genCalls > 0

\* C2: aggregation never fails as a whole because an adapter failed: no run ends
\* on an adapter's failure, a failed adapter contributes nothing, and once the
\* aggregation is over the bundle holds exactly what the adapters returned.
C2_AggregationSurvivesFailures ==
  /\ result # "research_error"
  /\ \A p \in failed : ret[p] = <<>>
  /\ Aggregated =>
       /\ news = ret["Bing"] \o ret["Tavily"]
       /\ reddit = ret["Reddit"]
       /\ youtube = ret["YouTube"]

\* createBlog finished its aggregation although the Reddit adapter failed, and
\* kept the news articles and the videos
C2_Witness ==
  /\ entry = "createBlog"
  /\ pc = "save_research"
  /\ failed = {"Reddit"}
  /\ Len(news) > 0
  /\ Len(youtube) > 0

\* C5: a platform whose requested count is 0 or negative is never invoked and
\* contributes no items.
C5_NonPositiveSkipped ==
  entry \in {"createBlog", "generateTopics", "ContentBot.generateTopics"} =>
    \A p \in Platforms :
      (opts[p].given /\ opts[p].v <= 0) => (p \notin invoked /\ ret[p] = <<>>)

\* the place of a platform in the submission order
Rank(p) ==
  CASE p = "Bing" -> 1 [] p = "Tavily" -> 2 [] p = "Reddit" -> 3 [] OTHER -> 4

\* all items of an earlier platform come before all items of a later one, each
\* platform's items in the order its adapter returned them
InSubmissionOrder(s) ==
  \A i, j \in 1..Len(s) :
    i < j => \/ Rank(s[i].src) < Rank(s[j].src)
             \/ s[i].src = s[j].src /\ s[i].idx < s[j].idx

\* C6: the merged bundle and the source list of the prompt are in submission
\* order whatever the order in which the adapter calls completed, and the source
\* list holds every returned item.
C6_SubmissionOrder ==
  /\ InSubmissionOrder(news \o reddit \o youtube)
  /\ InSubmissionOrder(sources)
  /\ pc \in {"complete", "write", "gt_complete", "gt_write"} =>
       Len(sources) = Len(ret["Bing"]) + Len(ret["Tavily"])
                      + Len(ret["Reddit"]) + Len(ret["YouTube"])

\* the calls completed Reddit, YouTube, Bing, Tavily and each returned two items
C6_Witness ==
  /\ entry = "main"
  /\ pc = "complete"
  /\ done = <<"Reddit", "YouTube", "Bing", "Tavily">>
  /\ \A p \in Platforms : Len(ret[p]) = MaxItems
  /\ Len(sources) = 4 * MaxItems

\* C7: every research task is started before any research task has finished.
C7_AllStartedBeforeAnyFinished ==
  [][tstarted' # tstarted => tsettled = {}]_vars

\* C8: without the generation credential a run does nothing but fail with a
\* precondition error: no adapter, no directory, no file, no completion call.
C8_FailFast ==
  ~groqKey =>
    /\ invoked = {}
    /\ tstarted = {}
    /\ dirs = {}
    /\ files = {}
    /\ genCalls = 0
    /\ result \in {"running", "precondition_error"}

AllSettled ==
  /\ tstarted \subseteq tsettled
  /\ \A p \in invoked : \E i \in 1..Len(done) : done[i] = p

\* C25: in a run of createBlog the completion endpoint is called once at most,
\* only when every launched adapter call has settled and none is launched
\* afterwards, and the output file is written only after the call returned.
C25_StagesInOrder ==
  [][entry = "createBlog" =>
       /\ genCalls' # genCalls => (genCalls = 0 /\ genCalls' = 1 /\ AllSettled)
       /\ (tstarted' # tstarted \/ invoked' # invoked) => genCalls = 0
       /\ ("output" \in files' /\ "output" \notin files) =>
            (genCalls = 1 /\ genOut \in {"empty", "text"})]_vars

\* a run of createBlog that fetched from two platforms, generated and wrote
C25_Witness ==
  /\ entry = "createBlog"
  /\ pc = "done"
  /\ Cardinality(invoked) >= 2
  /\ AllSettled
  /\ genCalls = 1
  /\ "output" \in files

\* C24: a topics run without an output path makes no directory and writes no
\* file, and hands the topics object back when the completion was usable.
C24_InMemoryWritesNothing ==
  (entry \in {"generateTopics", "ContentBot.generateTopics"} /\ ~outputPath) =>
     /\ dirs = {}
     /\ files = {}
     /\ (pc = "done" /\ genOut = "text") => result = "returned"

\* a run through ContentBot.generateTopics without a path that returned topics
C24_Witness ==
  /\ entry = "ContentBot.generateTopics"
  /\ ~outputPath
  /\ pc = "done"
  /\ result = "returned"
  /\ Len(sources) > 0
  /\ files = {}

\* C9: a run whose completion call threw or returned no content ends with a
\* generation error.
C9_NoContentIsAnError ==
  (pc = "done" /\ genOut \in {"throw", "empty"}) => result = "generation_error"

\* C10: a run of createBlog or generateTopics that ended with a fatal error has
\* written no file.
C10_NoFilesOnFatalFailure ==
  (entry \in {"createBlog", "generateTopics"}
     /\ result \in {"precondition_error", "generation_error"}) => files = {}

\* ------------------------------------------------------------ adapter properties
\* C1: a call whose request ended in a transport failure (connection error,
\* rejected client promise) has settled by resolving with the empty sequence;
\* no adapter call ever rejects.
C1_TransportFailureYieldsEmpty ==
  /\ a_out # "rejected"
  /\ a_failed => (a_pc = "done" /\ a_out = "resolved" /\ a_result = <<>>)

\* a call that failed on its second request, after the first had found entries
C1_Witness ==
  /\ a_pc = "done"
  /\ a_failed
  /\ a_net = 2
  /\ Len(a_found) > 0
  /\ a_result = <<>>

\* the adapters that need a credential of their own
CredentialFns ==
  { "ScrapeYouTube.fetchYouTubeVideos", "RapidReddit.fetchRedditPosts",
    "GenTopics.fetchTavilyNewsArticles", "ScrapeTavily.fetchTavilyNewsArticles" }

\* the entry points that search Tavily in-process, through the cached client
TavilyEntries == {"main", "generateTopics", "ContentBot.generateTopics"}

\* C23: an adapter whose credential is absent returns nothing and sends no
\* request, and in a run the news of the other search engine still arrive.
C23_MissingCredential ==
  /\ (a_fn \in CredentialFns /\ ~a_cred /\ a_pc = "done") =>
        (a_net = 0 /\ a_result = <<>> /\ a_out = "resolved")
  /\ (entry \in TavilyEntries /\ "news" \in tsettled /\ ~tavilyClient) =>
        /\ "Tavily" \notin invoked
        /\ ret["Tavily"] = <<>>
        /\ news = ret["Bing"]

\* a run that asked for both engines, got no Tavily client and kept Bing's news
C23_Witness ==
  /\ entry = "generateTopics"
  /\ "news" \in tsettled
  /\ cnt["Tavily"] > 0
  /\ ~tavilyClient
  /\ Len(news) > 0
  /\ news = ret["Bing"]

\* C22: a call one of whose requests was answered with a non-2xx status
\* returns the empty sequence, whatever the body of that response held.
C22_BadStatusYieldsEmpty ==
  (a_pc = "done" /\ a_badst) => a_result = <<>>

\* C21: a Substack page that lacks the embedded payload or the key path makes
\* the call fall back to the hard-coded list; the call never ends empty there.
C21_FallbackOnMissingPath ==
  (a_pc = "done" /\ a_nopath) => a_result = PopularPublications

\* C20: once the statistics request of the video adapter has gone out, every
\* video the search found is returned, whether or not the statistics arrive.
C20_StatsBestEffort ==
  (a_fn = "ScrapeYouTube.fetchYouTubeVideos" /\ a_pc = "done" /\ a_net = 2) =>
     a_result = Ids(a_found)

\* C3: a call with requested count 0 issues no request and returns the empty
\* sequence.
C3_ZeroCountNoRequest ==
  a_max = 0 => (a_net = 0 /\ a_result = <<>>)

\* the documented per-platform ceiling of each adapter (the Substack fetchers
\* have none: the requested count is the only limit)
Ceiling(fn) ==
  CASE fn = "CreateBlog.fetchBingNewsArticles" -> BingCeiling
    [] fn = "ScrapeBing.fetchBingNewsArticles" -> ScrapeBingCeiling
    [] fn = "GenTopics.fetchTavilyNewsArticles" -> TavilyCeiling
    [] fn = "ScrapeTavily.fetchTavilyNewsArticles" -> ScrapeTavilyCeiling
    [] fn = "ScrapeReddit.fetchRedditPosts" -> ScrapeRedditCeiling
    [] fn = "RapidReddit.fetchRedditPosts" -> RapidRedditCeiling
    [] fn = "ScrapeYouTube.fetchYouTubeVideos" -> YouTubeCeiling
    [] OTHER -> a_max

\* C4: a call never returns more items than min(requested count, ceiling).
C4_AtMostRequested ==
  a_pc = "done" => Len(a_result) <= Max(0, Min(a_max, Ceiling(a_fn)))

====
